---- MODULE Spec2Model ----
(***************************************************************************)
(* TrackEx desktop agent: license monitor / license stream / invalidation  *)
(* handler, the screenshot upload queue, and the screenshot service loop.  *)
(*                                                                         *)
(* Three groups of state share the module.  Each specification moves its   *)
(* own group and leaves the others unchanged:                              *)
(*   LicenseSpec  - sampling/license_monitor.rs, sampling/license_stream.rs*)
(*   QueueSpec    - storage/screenshot_queue.rs called through its API     *)
(*   ServiceSpec  - sampling/screenshot_service.rs: the timed service loop *)
(*   PipelineSpec - the queue as the running service loop drives it, with  *)
(*                  the fairness the loop provides                         *)
(*   StreamSpec   - sampling/license_stream.rs: the reconnect loop         *)
(*   BatcherSpec  - sampling/event_batcher.rs: queue_event and flush_events*)
(*                  called concurrently                                    *)
(*   BatchFillSpec - the same with runs long enough to reach the size cap  *)
(*   PollerSpec   - api/job_polling.rs: polls, jobs and the cursor         *)
(***************************************************************************)
EXTENDS Integers, Sequences, FiniteSets, TLC

VARIABLES
    \* ---- AppState license fields (storage/mod.rs) and session state ----
    license_valid,        \* Option<bool>: "None" | "true" | "false"
    license_status,       \* Option<String>: "None" | a status string
    last_license_check,   \* Option<i64>: {} for None, {t} for Some(t)
    clocked_in,           \* the local WorkSession is active (is_clocked_in)
    services_running,     \* Service Orchestrator loops are running
    app_usage_active,     \* an app-usage sub-session is open
    pc,                   \* position of the monitor task and the stream task
    h_accepted,           \* per task: clock_out events of the current handler run the server accepted
    h_queued,             \* per task: clock_out events of the current handler run put in the offline queue
    server_events,        \* clock_out events accepted by the server, total
    offline_events,       \* clock_out events in the offline queue, total
    sequences,            \* auto-clockout sequences started (handler passed its is_clocked_in test)
    mon_result,           \* result of the monitor's last check
    lic_log,              \* the last license message handled: its type and valid field, and the valid field of the last message that updated the license state
    checks,               \* monitor checks made
    stream_events,        \* stream events handled
    lic_now,              \* wall clock seen by the license tasks (seconds)
    \* ---- screenshot_queue table, temp folder (storage/screenshot_queue.rs) ----
    rows,                 \* id -> row of screenshot_queue (present, retry_count, last_attempt)
    files,                \* id -> the screenshot file of that capture exists in the temp folder
    next_id,              \* AUTOINCREMENT: id the next INSERT gets
    now,                  \* Utc::now(), seconds
    pending_removals,     \* ids whose remove_from_queue_sync was spawned and has not run yet
    q_op,                 \* last queue operation: get_pending_uploads (with its limit) or another
    q_cand,               \* rows that get_pending_uploads selected (after ORDER BY .. LIMIT)
    q_result,             \* what that get_pending_uploads returned
    fail_calls,           \* id -> mark_upload_failed calls made on it
    \* ---- screenshot service (sampling/screenshot_service.rs) ----
    employee_settings,    \* what get_employee_settings returns: auto_screenshots, screenshot_interval (minutes)
    stale,                \* id -> the file's modification time is older than the stale-file threshold
    services_paused,      \* ServiceRunState.paused
    SCREENSHOT_SERVICE_GUARD,  \* the service loop is alive
    FIRST_SCREENSHOT_TAKEN,
    last_capture,         \* GLOBAL_LAST_CAPTURE: {} for None, {t} for Some(t)
    last_cleanup,         \* the loop's local last_cleanup
    detours,              \* iterations so far that left the capture path: paused, settings error, disabled, Critical
    starts,               \* times the service loop was started
    capture_log,          \* times of the last two captures made, and how the later one was made
    critical_skip,        \* {} or {n}: the last loop iteration found Critical temp storage with a capture due and ran process_retry_queue n times
    enabled_since,        \* {} or {t}: every iteration since t found capturing enabled, and no capture was made after t
    \* ---- license stream reconnect loop (sampling/license_stream.rs) ----
    backoff_seconds,      \* the loop's local backoff_seconds
    consecutive_auth_failures,
    stream_pc,            \* "connect" | "sleep" | "terminated"
    fail_run,             \* attempts in a row, up to the last one, that did not get a connection
    auth_run,             \* attempts in a row, up to the last one, answered with HTTP 401
    last_delay,           \* {} or {d}: seconds slept before the attempt about to be made
    last_outcome,         \* {} or {r}: how the last connect_and_listen ended
    \* ---- event batcher (sampling/event_batcher.rs) ----
    batcher_events,       \* BATCHER_STATE.events: the pending batch, events named by their push number
    high_priority,        \* the events that were queued with a high-priority type
    pushed,               \* number of events pushed so far
    batch_pc,             \* per task: "idle" | "flush" (flush_events called) | "post" (batch taken)
    events_to_send,       \* per task: the batch flush_events took
    batch_at_push,        \* per caller: the pending batch right after its last queue_event pushed its event
    payload_count,        \* event -> number of flush payloads it has appeared in
    last_payload,         \* the last payload built by a flush
    batch_offline,        \* events put in the offline queue by a failed flush, in order
    post_failed,          \* events of the batches whose send failed
    \* ---- job poller (api/job_polling.rs) ----
    last_cursor,          \* Option<String>: {} for None, {c} for Some(c)
    poll_pc,              \* "idle" | "jobs" (poll_jobs is in its for loop)
    jobs,                 \* the jobs array of the response being processed
    job_idx,              \* position of the for loop in jobs
    resp_cursor,          \* the cursor field of the response being processed
    polls,                \* number of polls made
    since_param,          \* {} or {v}: the since parameter of the last request as the URL carries it
    since_expected,       \* {} or {c}: the cursor carried by the last successful fetch before that request
    carried,              \* {} or {c}: the cursor carried by the most recent successful fetch that carried one
    job_log,              \* what was done for each job of the current poll, in the order done
    \* ---- singleton guards (screenshot_service.rs, license_monitor.rs) ----
    svc_inst,             \* per start_screenshot_service call site: where its last call is or how it ended
    LICENSE_MONITOR_RUNNING,
    mon_call,             \* per start_license_monitor call site: "out" | "checked" (between the load and the store)
    mon_loops,            \* number of spawned License Monitor polling loops that have not broken out
    \* ---- session commands (commands.rs, main.rs) ----
    device_token,         \* AppState.device_token and server_url are Some (logged in)
    last_cmd,             \* the last command run: its name, whether a session was active, how the send of its clock_out event ended, whether the event was queued
    commands,             \* number of commands run
    \* ---- idle detector (tests/unit/idle_detector_tests.rs) ----
    detector,             \* the IdleDetector: threshold_seconds, last_activity, is_idle, idle_start_time
    idle_clock,           \* Instant::now(), seconds
    idle_ret,              \* the last check_idle call: its number, what it returned, is_idle before it, the time elapsed, and whether an idle period had been reported and not reset
    \* ---- batch timer loop (sampling/event_batcher.rs, start_batch_service) ----
    batch_service,        \* "running" | "stopped" (the loop has broken out)
    tick_log,              \* the last tick of the loop: its number, what the two service tests returned, what the tick did, and the final flushes made so far
    \* ---- session restore and license stream start (commands.rs, license_stream.rs) ----
    stored_session,       \* the session data in secure storage: "none" | "with_employee_id" | "without_employee_id"
    stream_loops,          \* number of License Stream reconnect loops spawned in this process that have not ended
    \* ---- license stream framing (license_stream.rs, connect_and_listen) ----
    sse_stream,           \* characters the server has sent and the agent has not yet received
    sse_sent,             \* the JSON texts of the frames the server has sent, in order
    data_buffer,          \* connect_and_listen's local data_buffer
    dispatched,           \* the texts handle_license_event was called with, in order
    chunks_whole,          \* every chunk received so far ended at the end of a line
    \* ---- consistency sweep (storage/screenshot_queue.rs, cleanup_stale_files) ----
    sweep_log             \* the last cleanup_stale_files call: whether one ran, the files it deleted, the rows it removed

licCore == <<license_valid, license_status, last_license_check, clocked_in,
             services_running, app_usage_active, pc, h_accepted, h_queued,
             server_events, offline_events, sequences, mon_result, checks,
             stream_events, lic_now, lic_log>>

reconnVars == <<backoff_seconds, consecutive_auth_failures, stream_pc, fail_run,
                auth_run, last_delay, last_outcome>>

batchVars == <<batcher_events, high_priority, pushed, batch_pc, events_to_send,
               batch_at_push, payload_count, last_payload, batch_offline,
               post_failed>>

pollVars == <<last_cursor, poll_pc, jobs, job_idx, resp_cursor, polls, since_param,
              since_expected, carried, job_log>>

guardVars == <<svc_inst, LICENSE_MONITOR_RUNNING, mon_call, mon_loops>>

sessVars == <<device_token, last_cmd, commands>>

idleVars == <<detector, idle_clock, idle_ret>>

timerVars == <<batch_service, tick_log>>

authVars == <<stored_session, stream_loops>>

sseVars == <<sse_stream, sse_sent, data_buffer, dispatched, chunks_whole>>

sweepVars == <<sweep_log>>

extVars == <<reconnVars, batchVars, pollVars, guardVars, sessVars, idleVars, timerVars, authVars, sseVars, sweepVars>>

licVars == <<licCore, extVars>>

queueVars == <<rows, files, next_id, now, pending_removals, q_op, q_cand, q_result,
               fail_calls>>

loopCore == <<services_paused, SCREENSHOT_SERVICE_GUARD, FIRST_SCREENSHOT_TAKEN,
              last_capture, last_cleanup, detours, starts, capture_log, critical_skip>>

loopVars == <<loopCore, enabled_since>>

svcVars == <<employee_settings, stale, loopVars>>

nonLicVars == <<queueVars, svcVars, extVars>>

nonQueueVars == <<licVars, svcVars>>

vars == <<licVars, queueVars, svcVars>>

None == "None"

nonReconnVars == <<licCore, queueVars, svcVars, batchVars, pollVars, guardVars, sessVars, idleVars,
    timerVars,
    authVars,
    sseVars,
    sweepVars>>

nonBatchVars == <<licCore, queueVars, svcVars, reconnVars, pollVars, guardVars, sessVars, idleVars,
    timerVars,
    authVars,
    sseVars,
    sweepVars>>

nonPollVars == <<licCore, queueVars, svcVars, reconnVars, batchVars, guardVars, sessVars, idleVars,
    timerVars,
    authVars,
    sseVars,
    sweepVars>>

nonGuardExtVars == <<reconnVars, batchVars, pollVars, sessVars, idleVars,
    timerVars,
    authVars,
    sseVars,
    sweepVars>>

nonIdleVars == <<licCore, queueVars, svcVars, reconnVars, batchVars, pollVars,
                 guardVars, sessVars,
    timerVars,
    authVars,
    sseVars,
    sweepVars>>

nonTimerVars == <<licCore, queueVars, svcVars, reconnVars, batchVars, pollVars, guardVars, sessVars, idleVars,
    authVars,
    sseVars,
    sweepVars>>

nonBatchTimerVars == <<licCore, queueVars, svcVars, reconnVars, pollVars,
                           guardVars, sessVars, idleVars,
    authVars,
    sseVars,
    sweepVars>>

nonAuthVars == <<licCore, queueVars, svcVars, reconnVars, batchVars, pollVars, guardVars, sessVars, idleVars, timerVars,
    sseVars,
    sweepVars>>

\* what get_auth_status and a relaunch leave alone
authFrame == <<license_valid, license_status, last_license_check, pc, h_accepted,
               h_queued, sequences, mon_result, checks, stream_events, lic_now,
               lic_log, queueVars, svcVars, reconnVars, batchVars, pollVars,
               svc_inst, mon_call, idleVars, timerVars,
    sseVars,
    sweepVars>>

nonSseVars == <<licCore, queueVars, svcVars, reconnVars, batchVars, pollVars, guardVars, sessVars, idleVars, timerVars, authVars,
    sweepVars>>

nonSweepVars == <<licCore, queueVars, svcVars, reconnVars, batchVars, pollVars, guardVars, sessVars, idleVars, timerVars, authVars, sseVars>>

\* what the session commands leave alone
sessFrame == <<license_valid, license_status, last_license_check, pc, h_accepted,
               h_queued, sequences, mon_result, checks, stream_events, lic_now,
               lic_log, queueVars, svcVars, reconnVars, batchVars, pollVars,
               svc_inst, mon_call, idleVars,
    timerVars,
    stream_loops,
    sseVars,
    sweepVars>>

(***************************************************************************)
(* Bounds of the license model.                                            *)
(***************************************************************************)
MaxChecks == 2
MaxStreamEvents == 2
MaxLicNow == 2

Tasks == {"monitor", "stream"}
Statuses == {None, "ACTIVE", "EXPIRED"}
OptBool == {None, "true", "false"}

(***************************************************************************)
(* What one license check can meet: ApiClient::new failing, get_with_auth  *)
(* failing, or an HTTP response (status code, whether the body parses as   *)
(* JSON, and the fields read from it).                                     *)
(***************************************************************************)
MonitorResponses ==
    {[kind |-> "client_error"], [kind |-> "network_error"]}
    \cup {[kind |-> "http", code |-> 200, parsable |-> TRUE, valid |-> v, status |-> s] :
              v \in OptBool, s \in Statuses}
    \cup {[kind |-> "http", code |-> 200, parsable |-> FALSE, valid |-> None, status |-> None]}
    \cup {[kind |-> "http", code |-> 402, parsable |-> p, valid |-> None, status |-> s] :
              p \in BOOLEAN, s \in {None, "EXPIRED"}}
    \cup {[kind |-> "http", code |-> c, parsable |-> TRUE, valid |-> None, status |-> None] :
              c \in {404, 500}}

IsSuccess(code) == code >= 200 /\ code <= 299

\* The Result the check returns for a response.
CheckResult(resp) ==
    IF resp.kind = "client_error" THEN "err_client"
    ELSE IF resp.kind = "network_error" THEN "err_network"
    ELSE IF IsSuccess(resp.code) THEN
        (IF ~resp.parsable THEN "err_parse"
         ELSE IF resp.valid = "true" THEN "ok_true" ELSE "ok_false")
    ELSE IF resp.code = 402 THEN "ok_false"
    ELSE "err_status"

ErrResults == {"err_client", "err_network", "err_parse", "err_status"}

SetLicenseStateAlwaysValid(valid, status) ==
    /\ license_valid' = "true"
    /\ license_status' = status
    /\ last_license_check' = {lic_now}

\* state.license_valid / license_status / last_license_check := ... under the lock
SetLicenseState(valid, status) ==
    /\ license_valid' = valid
    /\ license_status' = status
    /\ last_license_check' = {lic_now}

\* Mutant: every non-2xx status is treated as "no license" (as 402 is).
check_license_any_status_invalid(resp) ==
    /\ mon_result' = CheckResult(resp)
    /\ IF resp.kind # "http" THEN
            UNCHANGED <<license_valid, license_status, last_license_check, pc>>
       ELSE IF IsSuccess(resp.code) THEN
            IF ~resp.parsable THEN
                UNCHANGED <<license_valid, license_status, last_license_check, pc>>
            ELSE
                LET valid == IF resp.valid = "true" THEN "true" ELSE "false" IN
                /\ SetLicenseState(valid, resp.status)
                /\ pc' = [pc EXCEPT !["monitor"] = IF valid = "false" THEN "h_check" ELSE "idle"]
       ELSE
            /\ SetLicenseState("false", IF resp.parsable THEN resp.status ELSE None)
            /\ pc' = [pc EXCEPT !["monitor"] = "h_check"]

(***************************************************************************)
(* check_license_and_handle_expiration: one license check of the monitor.  *)
(* A call of handle_license_expiration is the move of the monitor task to  *)
(* "h_check"; the handler's own steps follow below.                        *)
(***************************************************************************)
check_license_and_handle_expiration(resp) ==
    /\ mon_result' = CheckResult(resp)
    /\ IF resp.kind # "http" THEN
            \* ApiClient::new or get_with_auth failed: Err, nothing touched
            UNCHANGED <<license_valid, license_status, last_license_check, pc>>
       ELSE IF IsSuccess(resp.code) THEN
            IF ~resp.parsable THEN
                \* response.json() failed: Err before the state update
                UNCHANGED <<license_valid, license_status, last_license_check, pc>>
            ELSE
                \* valid = get("valid").as_bool().unwrap_or(false)
                LET valid == IF resp.valid = "true" THEN "true" ELSE "false" IN
                /\ SetLicenseState(valid, resp.status)
                /\ pc' = [pc EXCEPT !["monitor"] = IF valid = "false" THEN "h_check" ELSE "idle"]
       ELSE IF resp.code = 402 THEN
            \* body parse falls back to a default object: licenseStatus absent
            /\ SetLicenseState("false", IF resp.parsable THEN resp.status ELSE None)
            /\ pc' = [pc EXCEPT !["monitor"] = "h_check"]
       ELSE
            \* 404, 500, ...: Err, license state not updated, no clock-out
            UNCHANGED <<license_valid, license_status, last_license_check, pc>>

\* One tick of the monitor loop while authenticated.
\* lines 121-168: the responses after which the check writes the license state
CheckUpdatesState(resp) ==
    /\ resp.kind = "http"
    /\ (IsSuccess(resp.code) /\ resp.parsable) \/ resp.code = 402

MonitorCheck ==
    /\ pc["monitor"] = "idle"
    /\ checks < MaxChecks
    /\ \E resp \in MonitorResponses :
          /\ check_license_and_handle_expiration(resp)
          /\ lic_log' = [type |-> "license_check",
                         valid |-> IF resp.kind = "http" THEN resp.valid ELSE None,
                         update |-> IF CheckUpdatesState(resp)
                                    THEN resp.valid ELSE lic_log.update]
    /\ checks' = checks + 1
    /\ UNCHANGED <<clocked_in, services_running, app_usage_active, h_accepted, h_queued,
                   server_events, offline_events, sequences, stream_events, lic_now>>
    /\ UNCHANGED nonLicVars


(***************************************************************************)
(* License stream: the events one SSE frame can carry.                     *)
(***************************************************************************)
UpdateTypes == {"license_updated", "license_renewed", "license_activated"}
RevocationTypes == {"license_expired", "license_revoked"}
StreamEventTypes == {"connected", "heartbeat", "unknown"} \cup UpdateTypes \cup RevocationTypes

StreamEvents ==
    {[type |-> ty, valid |-> v, status |-> s] :
        ty \in StreamEventTypes, v \in OptBool, s \in {None, "EXPIRED"}}

handle_license_event_quiet_revocation(ev) ==
    IF ev.type = "connected" THEN
        /\ IF ev.valid # None
              THEN SetLicenseState(ev.valid, ev.status)
              ELSE UNCHANGED <<license_valid, license_status, last_license_check>>
        /\ UNCHANGED pc
    ELSE IF ev.type \in UpdateTypes THEN
        LET valid == IF ev.valid = "true" THEN "true" ELSE "false" IN
        /\ SetLicenseState(valid, ev.status)
        /\ pc' = [pc EXCEPT !["stream"] = IF valid = "false" THEN "s_inv" ELSE "idle"]
    ELSE IF ev.type \in RevocationTypes THEN
        /\ SetLicenseState("false", ev.status)
        /\ UNCHANGED pc
    ELSE
        UNCHANGED <<license_valid, license_status, last_license_check, pc>>

\* handle_license_event and the two handlers it dispatches to.  The call of
\* handle_license_invalidation is the move of the stream task to "s_inv".
handle_license_event(ev) ==
    IF ev.type = "connected" THEN
        /\ IF ev.valid # None
              THEN SetLicenseState(ev.valid, ev.status)
              ELSE UNCHANGED <<license_valid, license_status, last_license_check>>
        /\ UNCHANGED pc
    ELSE IF ev.type \in UpdateTypes THEN
        \* handle_license_update: valid = event.valid.unwrap_or(false)
        LET valid == IF ev.valid = "true" THEN "true" ELSE "false" IN
        /\ SetLicenseState(valid, ev.status)
        /\ pc' = [pc EXCEPT !["stream"] = IF valid = "false" THEN "s_inv" ELSE "idle"]
    ELSE IF ev.type \in RevocationTypes THEN
        \* handle_license_revocation
        /\ SetLicenseState("false", ev.status)
        /\ pc' = [pc EXCEPT !["stream"] = "s_inv"]
    ELSE
        \* heartbeat, unknown type
        UNCHANGED <<license_valid, license_status, last_license_check, pc>>

\* lines 170-196: the events after which the stream writes the license state
EventUpdatesState(ev) ==
    \/ ev.type = "connected" /\ ev.valid # None
    \/ ev.type \in UpdateTypes \cup RevocationTypes

StreamEvent ==
    /\ pc["stream"] = "idle"
    /\ stream_events < MaxStreamEvents
    /\ \E ev \in StreamEvents :
          /\ handle_license_event(ev)
          /\ lic_log' = [type |-> ev.type, valid |-> ev.valid,
                         update |-> IF EventUpdatesState(ev)
                                    THEN ev.valid ELSE lic_log.update]
    /\ stream_events' = stream_events + 1
    /\ UNCHANGED <<clocked_in, services_running, app_usage_active, h_accepted, h_queued,
                   server_events, offline_events, sequences, mon_result, checks, lic_now>>
    /\ UNCHANGED nonLicVars

(***************************************************************************)
(* Session State Machine and Service Orchestrator entry points the license *)
(* code calls (sampling::is_clocked_in, sampling::stop_services,           *)
(* app_usage::end_current_session, work_session::end_session,              *)
(* offline_queue::queue_event).                                            *)
(***************************************************************************)
is_clocked_in == clocked_in

stop_services == services_running' = FALSE

end_current_session == app_usage_active' = FALSE

end_session == clocked_in' = FALSE

offline_queue_event == offline_events' = offline_events + 1

\* handle_license_invalidation: calls the handler only when clocked in.
handle_license_invalidation ==
    /\ UNCHANGED lic_log
    /\ pc["stream"] = "s_inv"
    /\ pc' = [pc EXCEPT !["stream"] = IF is_clocked_in THEN "h_check" ELSE "idle"]
    /\ UNCHANGED <<license_valid, license_status, last_license_check, clocked_in,
                   services_running, app_usage_active, h_accepted, h_queued, server_events,
                   offline_events, sequences, mon_result, checks, stream_events, lic_now>>
    /\ UNCHANGED nonLicVars

(***************************************************************************)
(* handle_license_expiration, run by task t, split at its await points:    *)
(*   h_check  is_clocked_in().await                                        *)
(*   h_stop   end_current_session, stop_services, reset_idle_state         *)
(*   h_send   ApiClient::new, post_with_auth, offline_queue::queue_event   *)
(*   h_end    work_session::end_session                                    *)
(***************************************************************************)
HandlerCheckWithoutGuard(t) ==
    /\ UNCHANGED lic_log
    /\ pc[t] = "h_check"
    /\ pc' = [pc EXCEPT ![t] = "h_stop"]
    /\ sequences' = sequences + 1
    /\ h_accepted' = [h_accepted EXCEPT ![t] = 0]
    /\ h_queued' = [h_queued EXCEPT ![t] = 0]
    /\ UNCHANGED <<license_valid, license_status, last_license_check, clocked_in,
                   services_running, app_usage_active, server_events, offline_events,
                   mon_result, checks, stream_events, lic_now>>
    /\ UNCHANGED nonLicVars

HandlerCheck(t) ==
    /\ UNCHANGED lic_log
    /\ pc[t] = "h_check"
    /\ IF ~is_clocked_in
          THEN /\ pc' = [pc EXCEPT ![t] = "idle"]
               /\ UNCHANGED <<sequences, h_accepted, h_queued>>
          ELSE /\ pc' = [pc EXCEPT ![t] = "h_stop"]
               /\ sequences' = sequences + 1
               /\ h_accepted' = [h_accepted EXCEPT ![t] = 0]
               /\ h_queued' = [h_queued EXCEPT ![t] = 0]
    /\ UNCHANGED <<license_valid, license_status, last_license_check, clocked_in,
                   services_running, app_usage_active, server_events, offline_events,
                   mon_result, checks, stream_events, lic_now>>
    /\ UNCHANGED nonLicVars

HandlerStop(t) ==
    /\ UNCHANGED lic_log
    /\ pc[t] = "h_stop"
    /\ end_current_session
    /\ stop_services
    /\ pc' = [pc EXCEPT ![t] = "h_send"]
    /\ UNCHANGED <<license_valid, license_status, last_license_check, clocked_in,
                   h_accepted, h_queued, server_events, offline_events, sequences,
                   mon_result, checks, stream_events, lic_now>>
    /\ UNCHANGED nonLicVars

SendOutcomes == {"success", "http_error", "network_error", "client_error"}

\* The match on ApiClient::new() and on post_with_auth(): what becomes of the
\* clock_out event for each outcome of the send attempt.
SendClockOut(t, outcome) ==
    IF outcome = "success" THEN
        \* Ok(response), status 2xx
        /\ server_events' = server_events + 1
        /\ h_accepted' = [h_accepted EXCEPT ![t] = @ + 1]
        /\ UNCHANGED <<offline_events, h_queued>>
    ELSE IF outcome = "network_error" THEN
        \* Err(e) from post_with_auth: queue_event("clock_out", ..)
        /\ offline_queue_event
        /\ h_queued' = [h_queued EXCEPT ![t] = @ + 1]
        /\ UNCHANGED <<server_events, h_accepted>>
    ELSE
        \* Ok(response) with a non-2xx status, or ApiClient::new() failed:
        \* the error is logged and the event is neither accepted nor queued
        UNCHANGED <<server_events, offline_events, h_accepted, h_queued>>

HandlerSend(t) ==
    /\ UNCHANGED lic_log
    /\ pc[t] = "h_send"
    /\ \E outcome \in SendOutcomes : SendClockOut(t, outcome)
    /\ pc' = [pc EXCEPT ![t] = "h_end"]
    /\ UNCHANGED <<license_valid, license_status, last_license_check, clocked_in,
                   services_running, app_usage_active, sequences, mon_result, checks,
                   stream_events, lic_now>>
    /\ UNCHANGED nonLicVars

HandlerEnd(t) ==
    /\ UNCHANGED lic_log
    /\ pc[t] = "h_end"
    /\ end_session
    /\ pc' = [pc EXCEPT ![t] = "idle"]
    /\ UNCHANGED <<license_valid, license_status, last_license_check, services_running,
                   app_usage_active, h_accepted, h_queued, server_events, offline_events,
                   sequences, mon_result, checks, stream_events, lic_now>>
    /\ UNCHANGED nonLicVars

\* Time passes for the license tasks.
LicTick ==
    /\ UNCHANGED lic_log
    /\ lic_now < MaxLicNow
    /\ lic_now' = lic_now + 1
    /\ UNCHANGED <<license_valid, license_status, last_license_check, clocked_in,
                   services_running, app_usage_active, pc, h_accepted, h_queued,
                   server_events, offline_events, sequences, mon_result, checks,
                   stream_events>>
    /\ UNCHANGED nonLicVars

\* AppState::new(): no license information yet.  The monitor and the stream
\* run while authenticated, clocked in or not.
LicenseInit ==
    /\ license_valid = None
    /\ license_status = None
    /\ last_license_check = {}
    /\ clocked_in \in BOOLEAN
    /\ services_running = clocked_in
    /\ app_usage_active = clocked_in
    /\ pc = [t \in Tasks |-> "idle"]
    /\ h_accepted = [t \in Tasks |-> 0]
    /\ h_queued = [t \in Tasks |-> 0]
    /\ server_events = 0
    /\ offline_events = 0
    /\ sequences = 0
    /\ mon_result = "none"
    /\ checks = 0
    /\ stream_events = 0
    /\ lic_now = 0
    /\ lic_log = [type |-> "none", valid |-> None, update |-> None]

LicenseNext ==
    \/ MonitorCheck
    \/ StreamEvent
    \/ handle_license_invalidation
    \/ \E t \in Tasks : HandlerCheck(t)
    \/ \E t \in Tasks : HandlerStop(t)
    \/ \E t \in Tasks : HandlerSend(t)
    \/ \E t \in Tasks : HandlerEnd(t)
    \/ LicTick


(***************************************************************************)
(* storage/screenshot_queue.rs                                             *)
(***************************************************************************)
MAX_RETRIES == 5
BASE_RETRY_DELAY_SECS == 60
\* the literal in retry_count.min(6)
RETRY_SHIFT_CAP == 6

\* Bounds of the queue model.
MaxShots == 2
MaxLimit == 2
TickSecs == 120
MaxNow == 960

Ids == 1..MaxShots

Min(a, b) == IF a < b THEN a ELSE b

Range(f) == {f[i] : i \in DOMAIN f}

\* Rows are inserted one at a time and ids are AUTOINCREMENT, so created_at
\* (CURRENT_TIMESTAMP at the INSERT) orders the rows as their ids do.
NoRow == [present |-> FALSE, retry_count |-> 0, last_attempt |-> {}]

\* 1 << n
RECURSIVE Shl1(_)
Shl1(n) == IF n <= 0 THEN 1 ELSE 2 * Shl1(n - 1)

\* Mutant: the delay doubles one retry late (1 << (retry_count - 1)).
RetryDelayLate(retry_count) ==
    BASE_RETRY_DELAY_SECS * Shl1(Min(retry_count, RETRY_SHIFT_CAP) - 1)

\* BASE_RETRY_DELAY_SECS * (1 << retry_count.min(6))
RetryDelay(retry_count) ==
    BASE_RETRY_DELAY_SECS * Shl1(Min(retry_count, RETRY_SHIFT_CAP))

\* the test `now < last_attempt + retry_delay` does not skip the row
BackoffElapsed(row, t) ==
    \A l \in row.last_attempt : ~(t < l + RetryDelay(row.retry_count))

\* ids of s in increasing order, as a sequence
RECURSIVE SortedSeq(_)
SortedSeq(s) ==
    IF s = {} THEN <<>>
    ELSE LET m == CHOOSE x \in s : \A y \in s : x <= y IN <<m>> \o SortedSeq(s \ {m})

\* SELECT .. WHERE retry_count < MAX_RETRIES ORDER BY created_at ASC LIMIT limit
Candidates(rs, limit) ==
    LET E == SortedSeq({i \in Ids : rs[i].present /\ rs[i].retry_count < MAX_RETRIES})
    IN SubSeq(E, 1, Min(limit, Len(E)))

\* The filter loop of get_pending_uploads over the selected rows.
PendingResult(rs, fs, cand, t) ==
    SelectSeq(cand, LAMBDA i : BackoffElapsed(rs[i], t) /\ fs[i])

\* Rows past their backoff whose file is gone: remove_from_queue_sync is spawned.
PendingOrphans(rs, fs, cand, t) ==
    {i \in Range(cand) : BackoffElapsed(rs[i], t) /\ ~fs[i]}

\* queue_screenshot: INSERT with retry_count 0 and last_attempt NULL.
queue_screenshot(rs, id) ==
    [rs EXCEPT ![id] = [present |-> TRUE, retry_count |-> 0, last_attempt |-> {}]]

\* mark_uploaded: DELETE the row, then remove the file (a failure is only logged).
mark_uploaded(q, id, rm_ok) ==
    [rows  |-> [q.rows EXCEPT ![id] = NoRow],
     files |-> IF q.rows[id].present /\ rm_ok THEN [q.files EXCEPT ![id] = FALSE] ELSE q.files]

\* Mutant: on eviction the row is deleted only when the file could be removed.
mark_upload_failed_keep_row(q, id, t, rm_ok) ==
    IF ~q.rows[id].present THEN q
    ELSE LET rc == q.rows[id].retry_count + 1 IN
         IF rc >= MAX_RETRIES /\ (rm_ok \/ ~q.files[id])
         THEN [rows |-> [q.rows EXCEPT ![id] = NoRow], files |-> [q.files EXCEPT ![id] = FALSE]]
         ELSE [rows  |-> [q.rows EXCEPT ![id].retry_count = rc, ![id].last_attempt = {t}],
               files |-> q.files]

\* mark_upload_failed: UPDATE retry_count + 1 and last_attempt; when the count
\* has reached MAX_RETRIES remove the file (result ignored) and DELETE the row.
mark_upload_failed(q, id, t, rm_ok) ==
    IF ~q.rows[id].present THEN q
    ELSE LET rc == q.rows[id].retry_count + 1 IN
         IF rc >= MAX_RETRIES
         THEN [rows  |-> [q.rows EXCEPT ![id] = NoRow],
               files |-> IF rm_ok THEN [q.files EXCEPT ![id] = FALSE] ELSE q.files]
         ELSE [rows  |-> [q.rows EXCEPT ![id].retry_count = rc, ![id].last_attempt = {t}],
               files |-> q.files]

\* remove_from_queue_sync: DELETE the row, the file is not touched.
remove_from_queue_sync(rs, id) == [rs EXCEPT ![id] = NoRow]

Queue == [rows |-> rows, files |-> files]

(***************************************************************************)
(* The queue driven through its public functions, in any order.            *)
(***************************************************************************)
OtherOp == [op |-> "other", limit |-> 0]

\* q_cand and q_result describe the state only right after get_pending_uploads.
NotGetPending ==
    /\ q_op' = OtherOp
    /\ q_cand' = <<>>
    /\ q_result' = <<>>

\* A capture writes its file and queue_screenshot inserts the row.
QueueScreenshot ==
    /\ next_id <= MaxShots
    /\ rows' = queue_screenshot(rows, next_id)
    /\ files' = [files EXCEPT ![next_id] = TRUE]
    /\ next_id' = next_id + 1
    /\ NotGetPending
    /\ UNCHANGED <<now, pending_removals, fail_calls>>
    /\ UNCHANGED nonQueueVars

GetPendingUploads ==
    /\ \E limit \in 1..MaxLimit :
          LET cand == Candidates(rows, limit) IN
          /\ q_cand' = cand
          /\ q_result' = PendingResult(rows, files, cand, now)
          /\ pending_removals' = pending_removals \cup PendingOrphans(rows, files, cand, now)
          /\ q_op' = [op |-> "get_pending_uploads", limit |-> limit]
    /\ UNCHANGED <<rows, files, next_id, now, fail_calls>>
    /\ UNCHANGED nonQueueVars

MarkUploaded ==
    /\ \E id \in Ids : \E rm_ok \in BOOLEAN :
          LET q2 == mark_uploaded(Queue, id, rm_ok) IN
          /\ rows' = q2.rows
          /\ files' = q2.files
    /\ NotGetPending
    /\ UNCHANGED <<next_id, now, pending_removals, fail_calls>>
    /\ UNCHANGED nonQueueVars

MarkUploadFailed ==
    /\ \E id \in Ids : \E rm_ok \in BOOLEAN :
          LET q2 == mark_upload_failed(Queue, id, now, rm_ok) IN
          /\ rows' = q2.rows
          /\ files' = q2.files
          /\ fail_calls' = [fail_calls EXCEPT ![id] = IF rows[id].present THEN @ + 1 ELSE @]
    /\ NotGetPending
    /\ UNCHANGED <<next_id, now, pending_removals>>
    /\ UNCHANGED nonQueueVars

\* The spawned remove_from_queue_sync runs.
RemoveFromQueue ==
    /\ \E id \in pending_removals :
          /\ rows' = remove_from_queue_sync(rows, id)
          /\ pending_removals' = pending_removals \ {id}
    /\ NotGetPending
    /\ UNCHANGED <<files, next_id, now, fail_calls>>
    /\ UNCHANGED nonQueueVars

\* A file of the temp folder is deleted from outside the agent.
ExternalDelete ==
    /\ \E id \in Ids :
          /\ files[id]
          /\ files' = [files EXCEPT ![id] = FALSE]
    /\ NotGetPending
    /\ UNCHANGED <<rows, next_id, now, pending_removals, fail_calls>>
    /\ UNCHANGED nonQueueVars

Tick ==
    /\ now + TickSecs <= MaxNow
    /\ now' = now + TickSecs
    /\ NotGetPending
    /\ UNCHANGED <<rows, files, next_id, pending_removals, fail_calls>>
    /\ UNCHANGED nonQueueVars

QueueInit ==
    /\ rows = [i \in Ids |-> NoRow]
    /\ files = [i \in Ids |-> FALSE]
    /\ next_id = 1
    /\ now = 0
    /\ pending_removals = {}
    /\ q_op = OtherOp
    /\ q_cand = <<>>
    /\ q_result = <<>>
    /\ fail_calls = [i \in Ids |-> 0]

QueueNext ==
    \/ QueueScreenshot
    \/ GetPendingUploads
    \/ MarkUploaded
    \/ MarkUploadFailed
    \/ RemoveFromQueue
    \/ ExternalDelete
    \/ Tick

(***************************************************************************)
(* sampling/screenshot_service.rs: the functions the service loop calls.   *)
(***************************************************************************)
MIN_SCREENSHOT_INTERVAL_SECS == 1800
INTERVAL_TOLERANCE_SECS == 5
DISABLED_CHECK_INTERVAL_SECS == 300
RETRY_BATCH_SIZE == 5
CLEANUP_INTERVAL_SECS == 3600

\* screenshot_interval values (minutes) the backend hands out
IntervalMinutes == {30}

EmployeeSettings == [auto_screenshots : BOOLEAN, screenshot_interval : IntervalMinutes]

\* outcome of one upload attempt and of the file removal that may follow it
UploadOutcomes == [upload_ok : BOOLEAN, rm_ok : BOOLEAN]

\* capture_and_upload_screenshot: capture to a temp file, queue_screenshot,
\* immediate upload, then mark_uploaded or mark_upload_failed.  A failed
\* capture returns Err before anything is written.
capture_and_upload_screenshot(q, id, t, cap_ok, o) ==
    IF ~cap_ok THEN q
    ELSE LET q1 == [rows  |-> queue_screenshot(q.rows, id),
                    files |-> [q.files EXCEPT ![id] = TRUE]] IN
         IF o.upload_ok THEN mark_uploaded(q1, id, o.rm_ok)
         ELSE mark_upload_failed(q1, id, t, o.rm_ok)

\* The for loop of process_retry_queue over the rows get_pending_uploads returned.
RECURSIVE RetryEach(_, _, _, _)
RetryEach(q, pending, t, outcome) ==
    IF pending = <<>> THEN q
    ELSE LET id == Head(pending)
             q2 == IF ~q.files[id]
                   THEN [rows |-> remove_from_queue_sync(q.rows, id), files |-> q.files]
                   ELSE IF outcome[id].upload_ok
                        THEN mark_uploaded(q, id, outcome[id].rm_ok)
                        ELSE mark_upload_failed(q, id, t, outcome[id].rm_ok)
         IN RetryEach(q2, Tail(pending), t, outcome)

\* process_retry_queue: get_pending_uploads(RETRY_BATCH_SIZE), then one upload
\* attempt per returned row.
process_retry_queue(q, t, outcome) ==
    RetryEach(q, PendingResult(q.rows, q.files, Candidates(q.rows, RETRY_BATCH_SIZE), t),
              t, outcome)

\* the removals get_pending_uploads spawns inside process_retry_queue
RetryOrphans(q, t) ==
    PendingOrphans(q.rows, q.files, Candidates(q.rows, RETRY_BATCH_SIZE), t)

\* cleanup_stale_files without the is_file_in_queue_sync test
cleanup_without_queue_test(q, old, removable) ==
    [rows  |-> [i \in Ids |-> IF q.rows[i].present /\ ~q.files[i] THEN NoRow ELSE q.rows[i]],
     files |-> [i \in Ids |-> IF q.files[i] /\ old[i] /\ i \in removable
                              THEN FALSE ELSE q.files[i]]]

\* cleanup_stale_files: remove the files older than the threshold that are not
\* in the queue (a failed removal is only logged), then
\* cleanup_orphaned_queue_entries_sync deletes the rows whose file is missing.
cleanup_stale_files(q, old, removable) ==
    [rows  |-> [i \in Ids |-> IF q.rows[i].present /\ ~q.files[i] THEN NoRow ELSE q.rows[i]],
     files |-> [i \in Ids |-> IF q.files[i] /\ old[i] /\ ~q.rows[i].present /\ i \in removable
                              THEN FALSE ELSE q.files[i]]]

(***************************************************************************)
(* The upload pipeline as the running service loop drives it: each         *)
(* iteration processes the retry queue; with auto_screenshots enabled it   *)
(* also captures when a capture is due and runs the cleanup when that is   *)
(* due.  Only differences of timestamps matter to the queue, so the clock  *)
(* is kept inside a window of MaxNow seconds: at the end of the window it  *)
(* restarts at 0 and every stored last_attempt moves back by as much.      *)
(***************************************************************************)
Max(a, b) == IF a > b THEN a ELSE b

\* captures made in the pipeline model
MaxPipelineShots == 1

\* the backend (or the settings cache) starts returning another value
SettingsChange ==
    /\ \E s \in EmployeeSettings :
          /\ s # employee_settings
          /\ employee_settings' = s
          /\ enabled_since' = IF s.auto_screenshots THEN enabled_since ELSE {}
    /\ UNCHANGED <<stale, loopCore>>
    /\ UNCHANGED <<licVars, queueVars>>

PipelineCapture ==
    /\ employee_settings.auto_screenshots
    /\ next_id <= MaxPipelineShots
    /\ \E cap_ok \in BOOLEAN : \E o \in UploadOutcomes :
          LET q2 == capture_and_upload_screenshot(Queue, next_id, now, cap_ok, o) IN
          /\ rows' = q2.rows
          /\ files' = q2.files
          /\ next_id' = IF cap_ok THEN next_id + 1 ELSE next_id
    /\ NotGetPending
    /\ UNCHANGED <<now, pending_removals, fail_calls>>
    /\ UNCHANGED nonQueueVars

PipelineRetry ==
    /\ \E outcome \in [Ids -> UploadOutcomes] :
          LET q2 == process_retry_queue(Queue, now, outcome) IN
          /\ rows' = q2.rows
          /\ files' = q2.files
    /\ pending_removals' = pending_removals \cup RetryOrphans(Queue, now)
    /\ NotGetPending
    /\ UNCHANGED <<next_id, now, fail_calls>>
    /\ UNCHANGED nonQueueVars

\* cleanup_stale_files, reached only on the enabled path of the loop
PipelineCleanup(removable) ==
    /\ employee_settings.auto_screenshots
    /\ LET q2 == cleanup_stale_files(Queue, stale, removable) IN
          /\ rows' = q2.rows
          /\ files' = q2.files
    /\ NotGetPending
    /\ UNCHANGED <<next_id, now, pending_removals, fail_calls>>
    /\ UNCHANGED nonQueueVars

\* a file's modification time falls behind the stale-file threshold
FileAges ==
    /\ \E i \in Ids :
          /\ files[i]
          /\ ~stale[i]
          /\ stale' = [stale EXCEPT ![i] = TRUE]
    /\ UNCHANGED <<employee_settings, loopVars>>
    /\ UNCHANGED <<licVars, queueVars>>

\* an attempt older than this is past every backoff delay
RetryWindow == RetryDelay(MAX_RETRIES)

\* the loop sleeps
Sleep ==
    /\ IF now + TickSecs <= MaxNow
       THEN /\ now' = now + TickSecs
            /\ rows' = rows
       ELSE /\ now' = 0
            /\ rows' = [i \in Ids |->
                          [rows[i] EXCEPT !.last_attempt =
                              {Max(l - (now + TickSecs), 0 - RetryWindow) : l \in @}]]
    /\ NotGetPending
    /\ UNCHANGED <<files, next_id, pending_removals, fail_calls>>
    /\ UNCHANGED nonQueueVars

NoCaptures == [prev |-> {}, last |-> {}, interval |-> 0, first |-> FALSE]

\* The agent is authenticated and clocked in; the service loop is not started yet.
ServiceInit ==
    /\ employee_settings = [auto_screenshots |-> TRUE, screenshot_interval |-> 30]
    /\ stale = [i \in Ids |-> FALSE]
    /\ services_paused = FALSE
    /\ SCREENSHOT_SERVICE_GUARD = FALSE
    /\ FIRST_SCREENSHOT_TAKEN = FALSE
    /\ last_capture = {}
    /\ last_cleanup = 0
    /\ detours = 0
    /\ starts = 0
    /\ capture_log = NoCaptures
    /\ enabled_since = {}
    /\ critical_skip = {}

PipelineNext ==
    \/ SettingsChange
    \/ PipelineCapture
    \/ PipelineRetry
    \/ \E removable \in SUBSET Ids : PipelineCleanup(removable)
    \/ FileAges
    \/ Sleep

\* The loop keeps running: it keeps processing the retry queue and sleeping;
\* if the enabled path is taken again and again the cleanup runs, and its
\* removals succeed; files keep ageing.
PipelineFairness ==
    /\ WF_vars(PipelineRetry)
    /\ WF_vars(Sleep)
    /\ SF_vars(PipelineCleanup(Ids))
    /\ WF_vars(FileAges)

(***************************************************************************)
(* sampling/screenshot_service.rs: start_screenshot_service.  One action   *)
(* is one iteration of the loop along one of its paths, from the check at  *)
(* the top to the end of the sleep that closes it.  The clock moves by the *)
(* sleeps; captures and uploads take no time.                              *)
(***************************************************************************)
\* Bounds of the service model.
MaxSvcNow == 3700
MaxDetours == 2
MaxStarts == 2

TempFolderStatus == {"Ok", "Warning", "Error", "Critical"}

licVarsButRunning == <<license_valid, license_status, last_license_check, clocked_in,
                       app_usage_active, pc, h_accepted, h_queued, server_events,
                       offline_events, sequences, mon_result, checks, stream_events,
                       lic_now, lic_log, extVars>>

should_services_run == services_running /\ ~services_paused /\ clocked_in

is_services_running == services_running

\* (settings.screenshot_interval * 60).max(MIN_SCREENSHOT_INTERVAL_SECS)
IntervalSecs(settings) ==
    Max(settings.screenshot_interval * 60, MIN_SCREENSHOT_INTERVAL_SECS)

\* interval_secs.saturating_sub(INTERVAL_TOLERANCE_SECS)
Threshold(settings) == Max(IntervalSecs(settings) - INTERVAL_TOLERANCE_SECS, 0)

\* should_capture: elapsed >= threshold; false when there is no last capture
ShouldCapture(last, t, settings) ==
    \E l \in last : t - l >= Threshold(settings)

\* sleep_secs at the end of a scheduled iteration
SleepSecs(last, t, settings) ==
    LET interval == IntervalSecs(settings)
        duration == IF last = {} THEN interval
                    ELSE LET l == CHOOSE x \in last : TRUE
                             time_until_next == l + interval - t
                         IN IF time_until_next > 0
                            THEN Max(time_until_next - (INTERVAL_TOLERANCE_SECS \div 2), 0)
                            ELSE 1
    IN Max(Min(duration, interval), 1)

\* a capture was made at time t
Logged(t, settings, first) ==
    [prev |-> capture_log.last, last |-> {t}, interval |-> IntervalSecs(settings),
     first |-> first]

\* what every iteration leaves alone
IterationFrame ==
    /\ NotGetPending
    /\ UNCHANGED <<fail_calls, employee_settings, stale, services_paused>>
    /\ UNCHANGED licVars

\* start_services spawns the loop; the guard admits one instance
StartScreenshotService ==
    /\ enabled_since' = {}
    /\ critical_skip' = {}
    /\ services_running
    /\ ~SCREENSHOT_SERVICE_GUARD
    /\ starts < MaxStarts
    /\ starts' = starts + 1
    /\ SCREENSHOT_SERVICE_GUARD' = TRUE
    /\ FIRST_SCREENSHOT_TAKEN' = FALSE
    /\ last_capture' = {now}
    /\ last_cleanup' = now
    /\ UNCHANGED <<employee_settings, stale, services_paused, detours, capture_log>>
    /\ UNCHANGED <<licVars, queueVars>>

\* clock out / log out, and clock in again
StopServices ==
    /\ services_running
    /\ stop_services
    /\ enabled_since' = {}
    /\ UNCHANGED <<employee_settings, stale, loopCore>>
    /\ UNCHANGED <<licVarsButRunning, queueVars>>

StartServices ==
    /\ ~services_running
    /\ services_running' = TRUE
    /\ UNCHANGED svcVars
    /\ UNCHANGED <<licVarsButRunning, queueVars>>

PauseResume ==
    /\ enabled_since' = {}
    /\ UNCHANGED critical_skip
    /\ services_running
    /\ services_paused' = ~services_paused
    /\ UNCHANGED <<employee_settings, stale, SCREENSHOT_SERVICE_GUARD,
                   FIRST_SCREENSHOT_TAKEN, last_capture, last_cleanup, detours,
                   starts, capture_log>>
    /\ UNCHANGED <<licVars, queueVars>>

\* lines 90-94: services stopped, the loop breaks and releases the guard
IterStop ==
    /\ enabled_since' = {}
    /\ critical_skip' = {}
    /\ SCREENSHOT_SERVICE_GUARD
    /\ ~should_services_run
    /\ ~is_services_running
    /\ SCREENSHOT_SERVICE_GUARD' = FALSE
    /\ UNCHANGED <<employee_settings, stale, services_paused, FIRST_SCREENSHOT_TAKEN,
                   last_capture, last_cleanup, detours, starts, capture_log>>
    /\ UNCHANGED <<licVars, queueVars>>

\* lines 95-97: paused, sleep 10 s
IterPaused ==
    /\ enabled_since' = {}
    /\ critical_skip' = {}
    /\ SCREENSHOT_SERVICE_GUARD
    /\ ~should_services_run
    /\ is_services_running
    /\ detours < MaxDetours
    /\ detours' = detours + 1
    /\ now + 10 <= MaxSvcNow
    /\ now' = now + 10
    /\ IterationFrame
    /\ UNCHANGED <<rows, files, next_id, pending_removals>>
    /\ UNCHANGED <<SCREENSHOT_SERVICE_GUARD, FIRST_SCREENSHOT_TAKEN, last_capture,
                   last_cleanup, starts, capture_log>>

\* lines 101-108: get_employee_settings fails, sleep 30 s
IterSettingsError ==
    /\ enabled_since' = {}
    /\ critical_skip' = {}
    /\ SCREENSHOT_SERVICE_GUARD
    /\ should_services_run
    /\ detours < MaxDetours
    /\ detours' = detours + 1
    /\ now + 30 <= MaxSvcNow
    /\ now' = now + 30
    /\ IterationFrame
    /\ UNCHANGED <<rows, files, next_id, pending_removals>>
    /\ UNCHANGED <<SCREENSHOT_SERVICE_GUARD, FIRST_SCREENSHOT_TAKEN, last_capture,
                   last_cleanup, starts, capture_log>>

\* lines 110-125: auto_screenshots is false
IterDisabled ==
    /\ enabled_since' = {}
    /\ critical_skip' = {}
    /\ SCREENSHOT_SERVICE_GUARD
    /\ should_services_run
    /\ ~employee_settings.auto_screenshots
    /\ detours < MaxDetours
    /\ detours' = detours + 1
    /\ FIRST_SCREENSHOT_TAKEN' = FALSE
    /\ \E outcome \in [Ids -> UploadOutcomes] :
          LET q2 == process_retry_queue(Queue, now, outcome) IN
          /\ rows' = q2.rows
          /\ files' = q2.files
    /\ pending_removals' = pending_removals \cup RetryOrphans(Queue, now)
    /\ now + DISABLED_CHECK_INTERVAL_SECS <= MaxSvcNow
    /\ now' = now + DISABLED_CHECK_INTERVAL_SECS
    /\ IterationFrame
    /\ UNCHANGED <<next_id, SCREENSHOT_SERVICE_GUARD, last_capture, last_cleanup,
                   starts, capture_log>>

\* the rounds of process_retry_queue of a Critical iteration, 10 s apart
RECURSIVE DrainRounds(_, _, _, _)
DrainRounds(q, t, n, outcome) ==
    IF n = 0 THEN q
    ELSE DrainRounds(process_retry_queue(q, t, outcome), t + 10, n - 1, outcome)

CriticalDrainsSkipped(first) == 0

\* lines 135 and 226-229: process_retry_queue runs once when the first
\* capture is skipped, three times when a scheduled capture is skipped
CriticalDrains(first) == IF first THEN 1 ELSE 3

\* lines 128-138: the first capture is due and the temp folder is Critical
IterFirstCritical ==
    /\ enabled_since' = {}
    /\ critical_skip' = {CriticalDrains(TRUE)}
    /\ SCREENSHOT_SERVICE_GUARD
    /\ should_services_run
    /\ employee_settings.auto_screenshots
    /\ ~FIRST_SCREENSHOT_TAKEN
    /\ detours < MaxDetours
    /\ detours' = detours + 1
    /\ \E outcome \in [Ids -> UploadOutcomes] :
          LET q2 == DrainRounds(Queue, now, CriticalDrains(TRUE), outcome) IN
          /\ rows' = q2.rows
          /\ files' = q2.files
    /\ pending_removals' = pending_removals \cup RetryOrphans(Queue, now)
    /\ now + 10 <= MaxSvcNow
    /\ now' = now + 10
    /\ IterationFrame
    /\ UNCHANGED <<next_id, SCREENSHOT_SERVICE_GUARD, FIRST_SCREENSHOT_TAKEN,
                   last_capture, last_cleanup, starts, capture_log>>

\* the queue after an Error or Warning reading: process_retry_queue runs first
Drained(q, t, status, outcome) ==
    IF status \in {"Error", "Warning"} THEN process_retry_queue(q, t, outcome) ELSE q

\* lines 128-172: the first capture, taken at once
IterFirstCapture ==
    /\ critical_skip' = {}
    /\ SCREENSHOT_SERVICE_GUARD
    /\ should_services_run
    /\ employee_settings.auto_screenshots
    /\ ~FIRST_SCREENSHOT_TAKEN
    /\ \E status \in TempFolderStatus \ {"Critical"} :
       \E cap_ok \in BOOLEAN :
       \E outcome \in [Ids -> UploadOutcomes] :
          LET id == Min(next_id, MaxShots)
              q1 == Drained(Queue, now, status, outcome)
              q2 == capture_and_upload_screenshot(q1, id, now, cap_ok, outcome[id])
              q3 == process_retry_queue(q2, now, outcome)
          IN
          /\ cap_ok => next_id <= MaxShots
          /\ rows' = q3.rows
          /\ files' = q3.files
          /\ next_id' = IF cap_ok THEN next_id + 1 ELSE next_id
          /\ pending_removals' = pending_removals \cup RetryOrphans(q1, now)
                                    \cup RetryOrphans(q2, now)
          /\ last_capture' = IF cap_ok THEN {now} ELSE last_capture
          /\ capture_log' = IF cap_ok THEN Logged(now, employee_settings, TRUE)
                            ELSE capture_log
          /\ enabled_since' = IF cap_ok \/ enabled_since = {} THEN {now} ELSE enabled_since
    /\ FIRST_SCREENSHOT_TAKEN' = TRUE
    /\ now + 5 <= MaxSvcNow
    /\ now' = now + 5
    /\ IterationFrame
    /\ UNCHANGED <<SCREENSHOT_SERVICE_GUARD, last_cleanup, detours, starts>>

\* lines 220-231: a scheduled capture is due and the temp folder is Critical
IterScheduledCritical ==
    /\ enabled_since' = {}
    /\ critical_skip' = {CriticalDrains(FALSE)}
    /\ SCREENSHOT_SERVICE_GUARD
    /\ should_services_run
    /\ employee_settings.auto_screenshots
    /\ FIRST_SCREENSHOT_TAKEN
    /\ ShouldCapture(last_capture, now, employee_settings)
    /\ detours < MaxDetours
    /\ detours' = detours + 1
    /\ \E outcome \in [Ids -> UploadOutcomes] :
          LET q2 == DrainRounds(Queue, now, CriticalDrains(FALSE), outcome) IN
          /\ rows' = q2.rows
          /\ files' = q2.files
    /\ pending_removals' = pending_removals \cup RetryOrphans(Queue, now)
    /\ now + 30 <= MaxSvcNow
    /\ now' = now + 30
    /\ IterationFrame
    /\ UNCHANGED <<next_id, SCREENSHOT_SERVICE_GUARD, FIRST_SCREENSHOT_TAKEN,
                   last_capture, last_cleanup, starts, capture_log>>

\* lines 273-280: the hourly cleanup, when it is due
Cleaned(q, t) ==
    IF t - last_cleanup >= CLEANUP_INTERVAL_SECS THEN cleanup_stale_files(q, stale, Ids) ELSE q

\* lines 174-312: the scheduled path: capture when should_capture, then the
\* retry queue, the cleanup and the computed sleep
IterScheduled ==
    /\ critical_skip' = {}
    /\ SCREENSHOT_SERVICE_GUARD
    /\ should_services_run
    /\ employee_settings.auto_screenshots
    /\ FIRST_SCREENSHOT_TAKEN
    /\ \E status \in TempFolderStatus \ {"Critical"} :
       \E cap_ok \in BOOLEAN :
       \E outcome \in [Ids -> UploadOutcomes] :
          LET due == ShouldCapture(last_capture, now, employee_settings)
              id == Min(next_id, MaxShots)
              q1 == IF due THEN Drained(Queue, now, status, outcome) ELSE Queue
              q2 == IF due
                    THEN capture_and_upload_screenshot(q1, id, now, cap_ok, outcome[id])
                    ELSE q1
              q3 == process_retry_queue(q2, now, outcome)
              q4 == Cleaned(q3, now)
              last == IF due THEN {now} ELSE last_capture
              sleep_secs == SleepSecs(last, now, employee_settings)
          IN
          /\ cap_ok => due /\ next_id <= MaxShots
          /\ ~due => status = "Ok"
          /\ rows' = q4.rows
          /\ files' = q4.files
          /\ next_id' = IF cap_ok THEN next_id + 1 ELSE next_id
          /\ pending_removals' = pending_removals \cup RetryOrphans(q1, now)
                                    \cup RetryOrphans(q2, now)
          /\ last_capture' = last
          /\ capture_log' = IF cap_ok THEN Logged(now, employee_settings, FALSE)
                            ELSE capture_log
          /\ enabled_since' = IF cap_ok \/ enabled_since = {} THEN {now} ELSE enabled_since
          /\ last_cleanup' = IF now - last_cleanup >= CLEANUP_INTERVAL_SECS THEN now
                             ELSE last_cleanup
          /\ now + sleep_secs <= MaxSvcNow
          /\ now' = now + sleep_secs
    /\ IterationFrame
    /\ UNCHANGED <<SCREENSHOT_SERVICE_GUARD, FIRST_SCREENSHOT_TAKEN, detours, starts>>

ServiceNext ==
    \/ SettingsChange
    \/ StartScreenshotService
    \/ StopServices
    \/ StartServices
    \/ PauseResume
    \/ IterStop
    \/ IterPaused
    \/ IterSettingsError
    \/ IterDisabled
    \/ IterFirstCritical
    \/ IterFirstCapture
    \/ IterScheduledCritical
    \/ IterScheduled

(***************************************************************************)
(* The license stream's reconnect loop (start_license_stream).             *)
(***************************************************************************)
MAX_BACKOFF == 60

MAX_AUTH_FAILURES == 3

MaxFailRun == 8

\* How one connect_and_listen call can end.  connected: the response had a
\* success status; ok: the call returned Ok (the chunk stream ended);
\* msg_auth: the error text contains "401" or "authentication".  The texts
\* of the configuration, client and send errors are fixed contexts; the text
\* of a status error holds the status and the response body, the text of a
\* chunk error is reqwest's.
ConnectResults ==
    {[kind |-> "eof", connected |-> TRUE, ok |-> TRUE, msg_auth |-> FALSE],
     [kind |-> "not_connected", connected |-> FALSE, ok |-> FALSE, msg_auth |-> FALSE],
     [kind |-> "http_401", connected |-> FALSE, ok |-> FALSE, msg_auth |-> TRUE]}
    \cup {[kind |-> "http_other", connected |-> FALSE, ok |-> FALSE, msg_auth |-> b] :
              b \in BOOLEAN}
    \cup {[kind |-> "chunk_error", connected |-> TRUE, ok |-> FALSE, msg_auth |-> b] :
              b \in BOOLEAN}

\* line 61: error_msg.contains("401") || error_msg.contains("authentication")
IsAuthError(r) == r.msg_auth

\* lines 51-82: one connect_and_listen call and the match on its result
ConnectAndListen ==
    /\ stream_pc = "connect"
    /\ \E r \in ConnectResults :
          /\ ~r.connected => fail_run < MaxFailRun
          /\ backoff_seconds' = IF r.ok THEN 1 ELSE backoff_seconds
          /\ consecutive_auth_failures' =
                 IF r.ok THEN 0
                 ELSE IF IsAuthError(r) THEN consecutive_auth_failures + 1
                 ELSE 0
          /\ stream_pc' =
                 IF ~r.ok /\ IsAuthError(r)
                       /\ consecutive_auth_failures + 1 >= MAX_AUTH_FAILURES
                 THEN "terminated" ELSE "sleep"
          /\ fail_run' = IF r.connected THEN 0 ELSE fail_run + 1
          /\ auth_run' = IF r.kind = "http_401" THEN auth_run + 1 ELSE 0
          /\ last_outcome' = {r}
    /\ UNCHANGED last_delay
    /\ UNCHANGED nonReconnVars

\* lines 84-86: sleep backoff_seconds, then double it up to MAX_BACKOFF
BackoffSleep ==
    /\ stream_pc = "sleep"
    /\ last_delay' = {backoff_seconds}
    /\ backoff_seconds' = Min(backoff_seconds * 2, MAX_BACKOFF)
    /\ stream_pc' = "connect"
    /\ UNCHANGED <<consecutive_auth_failures, fail_run, auth_run, last_outcome>>
    /\ UNCHANGED nonReconnVars

\* lines 43-46
StreamInit ==
    /\ backoff_seconds = 1
    /\ consecutive_auth_failures = 0
    /\ stream_pc = "connect"
    /\ fail_run = 0
    /\ auth_run = 0
    /\ last_delay = {}
    /\ last_outcome = {}

StreamNext ==
    \/ ConnectAndListen
    \/ BackoffSleep

(***************************************************************************)
(* The event batcher (sampling/event_batcher.rs).  queue_event is called   *)
(* by any number of tasks, flush_events by them and by the batch timer;    *)
(* BATCHER_STATE is behind a mutex, so each critical section is one step.  *)
(***************************************************************************)
MAX_BATCH_SIZE == 50

MaxBatchEvents == 4

MaxFillEvents == 51

MaxQueueFailures == 1

Callers == {"c1", "c2"}

BatchTasks == Callers \cup {"timer"}

HighPriorityTypes == {"clock_in", "clock_out", "idle_start", "idle_end",
                      "screenshot_taken", "screenshot_failed"}

EventTypes == HighPriorityTypes \cup {"app_focus"}

\* lines 70-74
is_high_priority(event_type) == event_type \in HighPriorityTypes

SizeLimitPassed(len) == len > MAX_BATCH_SIZE

\* line 88
SizeLimitReached(len) == len >= MAX_BATCH_SIZE

\* lines 60-93: queue_event up to its call of flush_events; at most limit
\* events are queued in a run
QueueEvent(c, event_type, limit) ==
    /\ batch_pc[c] = "idle"
    /\ pushed < limit
    /\ pushed' = pushed + 1
    /\ batcher_events' = Append(batcher_events, pushed + 1)
    /\ batch_at_push' = [batch_at_push EXCEPT ![c] = Append(batcher_events, pushed + 1)]
    /\ high_priority' = IF is_high_priority(event_type)
                         THEN high_priority \cup {pushed + 1} ELSE high_priority
    /\ batch_pc' = [batch_pc EXCEPT ![c] =
                       IF is_high_priority(event_type)
                             \/ SizeLimitReached(Len(batcher_events) + 1)
                       THEN "flush" ELSE "idle"]
    /\ UNCHANGED <<events_to_send, payload_count, last_payload, batch_offline,
                   post_failed>>
    /\ UNCHANGED nonBatchVars

\* lines 187-201: a tick of the batch timer calls flush_events
TimerTick ==
    /\ batch_pc["timer"] = "idle"
    /\ batch_pc' = [batch_pc EXCEPT !["timer"] = "flush"]
    /\ UNCHANGED <<batcher_events, high_priority, pushed, events_to_send,
                   batch_at_push, payload_count, last_payload, batch_offline,
                   post_failed>>
    /\ UNCHANGED nonBatchVars

TakeKeepingLast(evs) ==
    [taken |-> evs, left |-> IF evs = <<>> THEN <<>> ELSE <<evs[Len(evs)]>>]

\* line 106: std::mem::take
Take(evs) == [taken |-> evs, left |-> <<>>]

\* lines 99-109: flush_events under the lock
FlushTake(t) ==
    /\ batch_pc[t] = "flush"
    /\ IF batcher_events = <<>>
          THEN /\ batch_pc' = [batch_pc EXCEPT ![t] = "idle"]
               /\ UNCHANGED <<batcher_events, events_to_send>>
          ELSE /\ batch_pc' = [batch_pc EXCEPT ![t] = "post"]
               /\ events_to_send' = [events_to_send EXCEPT ![t] = Take(batcher_events).taken]
               /\ batcher_events' = Take(batcher_events).left
    /\ UNCHANGED <<high_priority, pushed, batch_at_push, payload_count, last_payload,
                   batch_offline, post_failed>>
    /\ UNCHANGED nonBatchVars

\* the sets of at most n elements of S
RECURSIVE SubsetsUpTo(_, _)
SubsetsUpTo(S, n) ==
    IF n = 0 THEN {{}}
    ELSE LET smaller == SubsetsUpTo(S, n - 1)
         IN  smaller \cup {x \cup {e} : x \in smaller, e \in S}


\* lines 131-141: every event of the batch goes to the offline queue, one by
\* one; an event whose offline_queue::queue_event fails is logged and gone
QueuedOffline(batch, failed) == SelectSeq(batch, LAMBDA e : e \notin failed)

\* lines 111-143: the payload is built and sent; on failure the batch is
\* handed to the offline queue
FlushPost(t) ==
    /\ batch_pc[t] = "post"
    /\ \E send_ok \in BOOLEAN :
       \E failed \in SubsetsUpTo(Range(events_to_send[t]), MaxQueueFailures) :
          /\ send_ok => failed = {}
          /\ batch_offline' = IF send_ok THEN batch_offline
                               ELSE batch_offline \o QueuedOffline(events_to_send[t], failed)
          /\ post_failed' = IF send_ok THEN post_failed
                             ELSE post_failed \cup Range(events_to_send[t])
    /\ last_payload' = events_to_send[t]
    /\ payload_count' = [e \in DOMAIN payload_count |->
                            IF e \in Range(events_to_send[t])
                            THEN payload_count[e] + 1 ELSE payload_count[e]]
    /\ events_to_send' = [events_to_send EXCEPT ![t] = <<>>]
    /\ batch_pc' = [batch_pc EXCEPT ![t] = "idle"]
    /\ UNCHANGED <<batcher_events, high_priority, pushed, batch_at_push>>
    /\ UNCHANGED nonBatchVars

\* lines 40-46: EventBatcherState::new
BatcherInit ==
    /\ batcher_events = <<>>
    /\ high_priority = {}
    /\ pushed = 0
    /\ batch_pc = [t \in BatchTasks |-> "idle"]
    /\ events_to_send = [t \in BatchTasks |-> <<>>]
    /\ batch_at_push = [c \in Callers |-> <<>>]
    /\ payload_count = [e \in 1..MaxFillEvents |-> 0]
    /\ last_payload = <<>>
    /\ batch_offline = <<>>
    /\ post_failed = {}

BatcherNext ==
    \/ \E c \in Callers : \E event_type \in EventTypes :
          QueueEvent(c, event_type, MaxBatchEvents)
    \/ TimerTick
    \/ \E t \in BatchTasks : FlushTake(t)
    \/ \E t \in BatchTasks : FlushPost(t)

\* Long runs of low-priority events, which fill the batch up to its cap.
LowPriorityTypes == EventTypes \ HighPriorityTypes

BatchFillNext ==
    \/ \E c \in Callers : \E event_type \in LowPriorityTypes :
          QueueEvent(c, event_type, MaxFillEvents)
    \/ \E c \in Callers : FlushTake(c)
    \/ \E c \in Callers : FlushPost(c)

(***************************************************************************)
(* The job poller (api/job_polling.rs): one task, poll after poll.         *)
(***************************************************************************)
MaxPolls == 3

MaxJobs == 2

MaxCursorLen == 2

\* Cursors are opaque strings of the server; "&" stands for the characters
\* that end a parameter in a query string.
CursorChars == {"a", "&"}

Cursors == UNION {[1..n -> CursorChars] : n \in 0..MaxCursorLen}

\* jobs_data["cursor"]: a string, or anything else (absent, null, a number)
CursorFields ==
    {[is_str |-> FALSE, text |-> <<>>]} \cup {[is_str |-> TRUE, text |-> c] : c \in Cursors}

\* job["type"] and job["id"] of one element of the jobs array
JobKinds ==
    {[type |-> ty, has_id |-> TRUE] : ty \in {"missing", "screenshot", "diagnostics", "other"}}
    \cup {[type |-> "screenshot", has_id |-> FALSE]}

JobLists == UNION {[1..n -> JobKinds] : n \in 0..MaxJobs}

\* how the calls made for one job end
JobOutcomes ==
    [ids_ok : BOOLEAN, capture_ok : BOOLEAN, upload_ok : BOOLEAN,
     taken_sent : BOOLEAN, failed_sent : BOOLEAN]

FetchFailures == {"client_error", "network_error", "http_error", "bad_json"}

\* lines 43-47: the endpoint's query string, "since=" and the cursor as it is
Endpoint(cursor) ==
    IF cursor = {} THEN <<>>
    ELSE <<"since=">> \o (CHOOSE c \in cursor : TRUE)

\* the text of a query value: it ends at the first "&"
RECURSIVE ValueText(_)
ValueText(chars) ==
    IF chars = <<>> \/ Head(chars) = "&" THEN <<>>
    ELSE <<Head(chars)>> \o ValueText(Tail(chars))

\* the since parameter a request to that endpoint carries
SinceOf(endpoint) ==
    IF endpoint = <<>> THEN {} ELSE {ValueText(Tail(endpoint))}

\* lines 41-54: the request of poll_jobs
PollFetch ==
    /\ poll_pc = "idle"
    /\ polls < MaxPolls
    /\ polls' = polls + 1
    /\ \E failure \in FetchFailures \cup {"none"} :
          /\ failure # "client_error" =>
                /\ since_param' = SinceOf(Endpoint(last_cursor))
                /\ since_expected' = carried
          /\ failure = "client_error" => UNCHANGED <<since_param, since_expected>>
          /\ IF failure # "none"
                THEN UNCHANGED <<poll_pc, jobs, job_idx, resp_cursor, carried, job_log>>
                ELSE \E js \in JobLists : \E cf \in CursorFields :
                        /\ poll_pc' = "jobs"
                        /\ jobs' = js
                        /\ job_idx' = 1
                        /\ resp_cursor' = cf
                        /\ carried' = IF cf.is_str THEN {cf.text} ELSE carried
                        /\ job_log' = <<>>
    /\ UNCHANGED last_cursor
    /\ UNCHANGED nonPollVars

\* lines 96-217: process_screenshot_job; taken, failed: the events the
\* server accepted
process_screenshot_job(job, o) ==
    IF ~job.has_id
    THEN [executed |-> FALSE, done |-> FALSE, taken |-> 0, failed |-> 0, ok |-> FALSE]
    ELSE LET done  == o.ids_ok /\ o.capture_ok /\ o.upload_ok
             inner == done /\ o.taken_sent
         IN  [executed |-> TRUE, done |-> done,
              taken |-> IF inner THEN 1 ELSE 0,
              failed |-> IF ~inner /\ o.failed_sent THEN 1 ELSE 0,
              ok |-> inner]

\* lines 77-94
process_job(job, o) ==
    IF job.type = "missing"
    THEN [executed |-> FALSE, done |-> FALSE, taken |-> 0, failed |-> 0, ok |-> FALSE]
    ELSE IF job.type = "screenshot" THEN process_screenshot_job(job, o)
    ELSE [executed |-> FALSE, done |-> FALSE, taken |-> 0, failed |-> 0, ok |-> TRUE]

NextJobStoppingAtError(idx, n, ok) == IF ok THEN idx + 1 ELSE n + 1

\* lines 59-64: the for loop goes on whatever process_job returned
NextJob(idx, n, ok) == idx + 1

\* lines 59-64: one round of the for loop
ProcessJob ==
    /\ poll_pc = "jobs"
    /\ job_idx <= Len(jobs)
    /\ \E o \in JobOutcomes :
          LET r == process_job(jobs[job_idx], o) IN
          /\ job_log' = Append(job_log, [idx |-> job_idx, executed |-> r.executed,
                                          done |-> r.done, taken |-> r.taken,
                                          failed |-> r.failed])
          /\ job_idx' = NextJob(job_idx, Len(jobs), r.ok)
    /\ UNCHANGED <<last_cursor, poll_pc, jobs, resp_cursor, polls, since_param,
                   since_expected, carried>>
    /\ UNCHANGED nonPollVars

\* lines 69-74: the cursor is stored after the loop
PollFinish ==
    /\ poll_pc = "jobs"
    /\ job_idx > Len(jobs)
    /\ last_cursor' = IF resp_cursor.is_str THEN {resp_cursor.text} ELSE last_cursor
    /\ poll_pc' = "idle"
    /\ UNCHANGED <<jobs, job_idx, resp_cursor, polls, since_param, since_expected,
                   carried, job_log>>
    /\ UNCHANGED nonPollVars

\* line 14
PollerInit ==
    /\ last_cursor = {}
    /\ poll_pc = "idle"
    /\ jobs = <<>>
    /\ job_idx = 1
    /\ resp_cursor = [is_str |-> FALSE, text |-> <<>>]
    /\ polls = 0
    /\ since_param = {}
    /\ since_expected = {}
    /\ carried = {}
    /\ job_log = <<>>

PollerNext ==
    \/ PollFetch
    \/ ProcessJob
    \/ PollFinish

(***************************************************************************)
(* Singleton guards: start_screenshot_service (screenshot_service.rs) and  *)
(* start_license_monitor / stop_license_monitor (license_monitor.rs).      *)
(* Calls may run concurrently: each call site is a task of its own, and a  *)
(* step is what a call does between two points where another task can run. *)
(***************************************************************************)
MaxMonLoops == 3

Starters == {"s1", "s2"}

\* AtomicBool::compare_exchange(expected, new): one atomic step
compare_exchange_always(current, expected, new) == [ok |-> TRUE, value |-> new]

compare_exchange(current, expected, new) ==
    IF current = expected THEN [ok |-> TRUE, value |-> new]
                          ELSE [ok |-> FALSE, value |-> current]

InService == {"init", "loop"}

\* screenshot_service.rs lines 51-67: the guard test, and the reset of the
\* first-screenshot flag by the call that got the guard
start_screenshot_service(i) ==
    /\ svc_inst[i] \notin InService
    /\ LET r == compare_exchange(SCREENSHOT_SERVICE_GUARD, FALSE, TRUE)
       IN /\ SCREENSHOT_SERVICE_GUARD' = r.value
          /\ svc_inst' = [svc_inst EXCEPT ![i] = IF r.ok THEN "init" ELSE "skipped"]
          /\ FIRST_SCREENSHOT_TAKEN' = IF r.ok THEN FALSE ELSE FIRST_SCREENSHOT_TAKEN
    /\ UNCHANGED <<LICENSE_MONITOR_RUNNING, mon_call, mon_loops>>
    /\ UNCHANGED <<employee_settings, stale, services_paused, last_capture,
                   last_cleanup, detours, starts, capture_log, critical_skip,
                   enabled_since>>
    /\ UNCHANGED <<licCore, queueVars, nonGuardExtVars>>

\* lines 69-86: init_queue_table; on failure the guard is released and the
\* call returns, otherwise the last capture time is set and the loop entered
InitQueueTable(i) ==
    /\ svc_inst[i] = "init"
    /\ \E ok \in BOOLEAN :
         IF ok
         THEN /\ svc_inst' = [svc_inst EXCEPT ![i] = "loop"]
              /\ last_capture' = {now}
              /\ last_cleanup' = now
              /\ UNCHANGED SCREENSHOT_SERVICE_GUARD
         ELSE /\ svc_inst' = [svc_inst EXCEPT ![i] = "init_failed"]
              /\ SCREENSHOT_SERVICE_GUARD' = FALSE
              /\ UNCHANGED <<last_capture, last_cleanup>>
    /\ UNCHANGED <<LICENSE_MONITOR_RUNNING, mon_call, mon_loops>>
    /\ UNCHANGED <<employee_settings, stale, services_paused, FIRST_SCREENSHOT_TAKEN,
                   detours, starts, capture_log, critical_skip, enabled_since>>
    /\ UNCHANGED <<licCore, queueVars, nonGuardExtVars>>

\* lines 88-94 and 316: the loop finds the services stopped, breaks and
\* releases the guard
ServiceLoopExit(i) ==
    /\ svc_inst[i] = "loop"
    /\ ~should_services_run
    /\ ~is_services_running
    /\ svc_inst' = [svc_inst EXCEPT ![i] = "exited"]
    /\ SCREENSHOT_SERVICE_GUARD' = FALSE
    /\ UNCHANGED <<LICENSE_MONITOR_RUNNING, mon_call, mon_loops>>
    /\ UNCHANGED <<employee_settings, stale, services_paused, FIRST_SCREENSHOT_TAKEN,
                   last_capture, last_cleanup, detours, starts, capture_log,
                   critical_skip, enabled_since>>
    /\ UNCHANGED <<licCore, queueVars, nonGuardExtVars>>

\* license_monitor.rs lines 28-31: the load of the flag; a call that reads
\* true returns
MonitorStartLoad(i) ==
    /\ mon_call[i] = "out"
    /\ ~LICENSE_MONITOR_RUNNING
    /\ mon_call' = [mon_call EXCEPT ![i] = "checked"]
    /\ UNCHANGED <<svc_inst, LICENSE_MONITOR_RUNNING, mon_loops>>
    /\ UNCHANGED <<licCore, queueVars, svcVars, nonGuardExtVars>>

\* lines 33-71: the store of the flag and the spawn of the polling loop
MonitorStartSpawn(i) ==
    /\ mon_call[i] = "checked"
    /\ mon_loops < MaxMonLoops
    /\ LICENSE_MONITOR_RUNNING' = TRUE
    /\ mon_loops' = mon_loops + 1
    /\ mon_call' = [mon_call EXCEPT ![i] = "out"]
    /\ UNCHANGED svc_inst
    /\ UNCHANGED <<licCore, queueVars, svcVars, nonGuardExtVars>>

\* lines 41-48: a loop's tick; it breaks when it reads the flag as false
MonitorLoopBreak ==
    /\ mon_loops > 0
    /\ ~LICENSE_MONITOR_RUNNING
    /\ mon_loops' = mon_loops - 1
    /\ UNCHANGED <<svc_inst, LICENSE_MONITOR_RUNNING, mon_call>>
    /\ UNCHANGED <<licCore, queueVars, svcVars, nonGuardExtVars>>

\* lines 74-77
stop_license_monitor ==
    /\ LICENSE_MONITOR_RUNNING
    /\ LICENSE_MONITOR_RUNNING' = FALSE
    /\ UNCHANGED <<svc_inst, mon_call, mon_loops>>
    /\ UNCHANGED <<licCore, queueVars, svcVars, nonGuardExtVars>>

\* screenshot_service.rs line 36, license_monitor.rs line 17
GuardInit ==
    /\ svc_inst = [i \in Starters |-> "idle"]
    /\ LICENSE_MONITOR_RUNNING = FALSE
    /\ mon_call = [i \in Starters |-> "out"]
    /\ mon_loops = 0

GuardNext ==
    \/ \E i \in Starters : start_screenshot_service(i)
    \/ \E i \in Starters : InitQueueTable(i)
    \/ \E i \in Starters : ServiceLoopExit(i)
    \/ StopServices
    \/ StartServices
    \/ \E i \in Starters : MonitorStartLoad(i)
    \/ \E i \in Starters : MonitorStartSpawn(i)
    \/ MonitorLoopBreak
    \/ stop_license_monitor


(***************************************************************************)
(* Session commands: clock_in, clock_out, logout (commands.rs) and the     *)
(* forced clock-out at shutdown (main.rs).  Each command is one step; the  *)
(* user is logged in at the start.                                         *)
(***************************************************************************)
MaxCommands == 4

\* how the POST of the command's event ends: 2xx, another status, a
\* transport error, or ApiClient::new failed
PostOutcomes == {"ok", "status_error", "network_error", "no_client"}

NoCommand == [name |-> "none", was_clocked_in |-> FALSE, outcome |-> "none",
              queued |-> FALSE]

\* the process has not exited
AppRunning == last_cmd.name # "force_clock_out"

\* get_pending_events and the loop over them: k of the queued events are
\* delivered and marked processed, the others marked failed and kept
DrainPendingEvents(k, sent) ==
    /\ offline_events' = offline_events - k
    /\ server_events' = server_events + k + (IF sent THEN 1 ELSE 0)

\* commands.rs lines 1242-1296
clock_in(o) ==
    /\ AppRunning
    /\ commands < MaxCommands
    /\ mon_loops < MaxMonLoops
    /\ ~clocked_in
    /\ clocked_in' = TRUE
    /\ IF device_token /\ o = "ok"
       THEN /\ services_running' = TRUE
            /\ LICENSE_MONITOR_RUNNING' = TRUE
            /\ mon_loops' = IF LICENSE_MONITOR_RUNNING THEN mon_loops ELSE mon_loops + 1
       ELSE UNCHANGED <<services_running, LICENSE_MONITOR_RUNNING, mon_loops>>
    /\ last_cmd' = [name |-> "clock_in", was_clocked_in |-> FALSE,
                    outcome |-> IF device_token THEN o ELSE "not_authenticated",
                    queued |-> FALSE]
    /\ commands' = commands + 1
    /\ UNCHANGED <<device_token, app_usage_active, server_events, offline_events>>
    /\ UNCHANGED sessFrame
    /\ UNCHANGED stored_session

\* commands.rs lines 1301-1421
clock_out(o) ==
    /\ AppRunning
    /\ commands < MaxCommands
    /\ clocked_in
    /\ end_current_session
    /\ \E k \in 0..offline_events : DrainPendingEvents(k, device_token /\ o = "ok")
    /\ stop_services
    /\ LICENSE_MONITOR_RUNNING' = FALSE
    /\ end_session
    /\ last_cmd' = [name |-> "clock_out", was_clocked_in |-> TRUE,
                    outcome |-> IF device_token THEN o ELSE "not_authenticated",
                    queued |-> FALSE]
    /\ commands' = commands + 1
    /\ UNCHANGED <<device_token, mon_loops>>
    /\ UNCHANGED sessFrame
    /\ UNCHANGED stored_session

\* commands.rs lines 577-725
logout(o) ==
    /\ AppRunning
    /\ commands < MaxCommands
    /\ IF clocked_in
       THEN \E k \in 0..offline_events : DrainPendingEvents(k, device_token /\ o = "ok")
       ELSE UNCHANGED <<offline_events, server_events>>
    /\ end_session
    /\ device_token' = FALSE
    /\ stop_services
    /\ end_current_session
    /\ last_cmd' = [name |-> "logout", was_clocked_in |-> clocked_in,
                    outcome |-> IF ~clocked_in THEN "none"
                                ELSE IF device_token THEN o ELSE "not_authenticated",
                    queued |-> FALSE]
    /\ commands' = commands + 1
    /\ UNCHANGED <<LICENSE_MONITOR_RUNNING, mon_loops>>
    /\ UNCHANGED sessFrame
    /\ stored_session' = "none"

\* main.rs lines 32-95; the process exits afterwards
force_clock_out(o) ==
    /\ AppRunning
    /\ device_token
    /\ clocked_in
    /\ end_current_session
    /\ stop_services
    /\ end_session
    /\ server_events' = server_events + (IF o = "ok" THEN 1 ELSE 0)
    /\ offline_events' = offline_events + (IF o = "network_error" THEN 1 ELSE 0)
    /\ last_cmd' = [name |-> "force_clock_out", was_clocked_in |-> TRUE,
                    outcome |-> o, queued |-> (o = "network_error")]
    /\ commands' = commands + 1
    /\ UNCHANGED <<device_token, LICENSE_MONITOR_RUNNING, mon_loops>>
    /\ UNCHANGED sessFrame
    /\ UNCHANGED stored_session

SessionInit ==
    /\ device_token = TRUE
    /\ last_cmd = NoCommand
    /\ commands = 0

SessionNext ==
    \/ \E o \in PostOutcomes : clock_in(o)
    \/ \E o \in PostOutcomes : clock_out(o)
    \/ \E o \in PostOutcomes : logout(o)
    \/ \E o \in PostOutcomes : force_clock_out(o)
    \/ MonitorLoopBreak

(***************************************************************************)
(* Idle detector (tests/unit/idle_detector_tests.rs, struct IdleDetector). *)
(***************************************************************************)
MaxIdleNow == 6

\* thresholds the detector is built with, in seconds
Thresholds == {0, 2}

\* lines 16-23
NewDetector(threshold) ==
    [threshold_seconds |-> threshold, last_activity |-> 0, is_idle |-> FALSE,
     idle_start_time |-> {}]

\* line 34: self.last_activity.elapsed()
Elapsed(d) == idle_clock - d.last_activity

\* lines 37-42: the detector after the threshold test
AfterCheck(d) ==
    IF Elapsed(d) >= d.threshold_seconds /\ ~d.is_idle
    THEN [d EXCEPT !.is_idle = TRUE,
                   !.idle_start_time = {d.last_activity + d.threshold_seconds}]
    ELSE d

BecameIdleLevel(was_idle, is_idle_now) == is_idle_now

\* line 45: true if the state changed to idle
BecameIdle(was_idle, is_idle_now) == ~was_idle /\ is_idle_now

\* lines 25-31
record_activity ==
    /\ detector' = [detector EXCEPT !.last_activity = idle_clock,
                                    !.is_idle = FALSE,
                                    !.idle_start_time =
                                        IF detector.is_idle THEN {} ELSE @]
    /\ idle_ret' = [idle_ret EXCEPT !.reported = IF detector.is_idle THEN FALSE ELSE @]
    /\ UNCHANGED idle_clock
    /\ UNCHANGED nonIdleVars

\* lines 33-46
check_idle ==
    /\ detector' = AfterCheck(detector)
    /\ idle_ret' = [calls |-> (idle_ret.calls + 1) % 2,
                    ret |-> BecameIdle(detector.is_idle, AfterCheck(detector).is_idle),
                    was_idle |-> detector.is_idle,
                    elapsed |-> Elapsed(detector),
                    reported_before |-> idle_ret.reported,
                    reported |-> idle_ret.reported
                        \/ BecameIdle(detector.is_idle, AfterCheck(detector).is_idle)]
    /\ UNCHANGED idle_clock
    /\ UNCHANGED nonIdleVars

IdleTick ==
    /\ idle_clock < MaxIdleNow
    /\ idle_clock' = idle_clock + 1
    /\ UNCHANGED <<detector, idle_ret>>
    /\ UNCHANGED nonIdleVars

IdleInit ==
    /\ detector \in {NewDetector(t) : t \in Thresholds}
    /\ idle_clock = 0
    /\ idle_ret = [calls |-> 0, ret |-> FALSE, was_idle |-> FALSE, elapsed |-> 0,
                   reported_before |-> FALSE, reported |-> FALSE]

IdleNext ==
    \/ record_activity
    \/ check_idle
    \/ IdleTick

(***************************************************************************)
(* The batch timer loop (event_batcher.rs, start_batch_service): one tick  *)
(* per step, the flush it calls run by the timer task's FlushTake and      *)
(* FlushPost.                                                              *)
(***************************************************************************)
TickUngated(should_run, running) == "flush"

\* lines 189-201: what a tick does
TickDecision(should_run, running) ==
    IF ~should_run
    THEN IF ~running THEN "final_flush" ELSE "continue"
    ELSE "flush"

\* lines 185-202
BatchServiceTick ==
    /\ batch_service = "running"
    /\ batch_pc["timer"] = "idle"
    /\ LET d == TickDecision(should_services_run, is_services_running)
       IN /\ batch_pc' = [batch_pc EXCEPT !["timer"] =
                             IF d = "continue" THEN "idle" ELSE "flush"]
          /\ batch_service' = IF d = "final_flush" THEN "stopped" ELSE "running"
          /\ tick_log' = [n |-> (tick_log.n + 1) % 2,
                          should_run |-> should_services_run,
                          running |-> is_services_running,
                          did |-> d,
                          final_flushes |-> tick_log.final_flushes
                                              + (IF d = "final_flush" THEN 1 ELSE 0)]
    /\ UNCHANGED <<batcher_events, high_priority, pushed, events_to_send,
                   batch_at_push, payload_count, last_payload, batch_offline,
                   post_failed>>
    /\ UNCHANGED nonBatchTimerVars

\* line 182
TimerInit ==
    /\ batch_service = "running"
    /\ tick_log = [n |-> 0, should_run |-> FALSE, running |-> FALSE, did |-> "none",
                   final_flushes |-> 0]

TimerNext ==
    \/ BatchServiceTick
    \/ FlushTake("timer")
    \/ FlushPost("timer")
    \/ \E c \in Callers : QueueEvent(c, "app_focus", MaxBatchEvents)
    \/ \E c \in Callers : FlushTake(c)
    \/ \E c \in Callers : FlushPost(c)
    \/ StopServices
    \/ StartServices
    \/ PauseResume

(***************************************************************************)
(* get_auth_status and restore_session_to_memory (commands.rs), and the    *)
(* spawning of the License Stream reconnect loop (license_stream.rs,       *)
(* start_license_stream).  The process can be killed and launched again:   *)
(* what is in memory is lost, the local WorkSession and the stored session *)
(* data are kept.                                                          *)
(***************************************************************************)
MaxStreamLoops == 3

\* validate_token_with_server: Ok(true), Ok(false), Err
Validations == {"valid", "invalid", "network_error"}

\* check_backend_active_session: has_active_session, none, Err
BackendSessions == {"active", "none", "error"}

\* license_stream.rs lines 41-91: every call spawns a loop
start_license_stream == stream_loops' = stream_loops + 1

\* commands.rs lines 950-1044
restore_session_to_memory(backend) ==
    /\ device_token' = TRUE
    /\ IF stored_session = "with_employee_id"
       THEN /\ clocked_in' = (backend = "active")
            /\ app_usage_active' = FALSE
            /\ services_running' = IF backend = "active" THEN TRUE ELSE services_running
       ELSE UNCHANGED <<clocked_in, app_usage_active, services_running>>
    /\ start_license_stream
    /\ last_cmd' = [name |-> "restore", was_clocked_in |-> clocked_in,
                    outcome |-> backend, queued |-> FALSE]
    /\ UNCHANGED stored_session

\* commands.rs lines 728-925
get_auth_status(validation, backend) ==
    /\ AppRunning
    /\ commands < MaxCommands
    /\ stream_loops < MaxStreamLoops
    /\ commands' = commands + 1
    /\ IF device_token
       THEN IF validation = "invalid"
            THEN /\ device_token' = FALSE
                 /\ stored_session' = "none"
                 /\ last_cmd' = [name |-> "get_auth_status", was_clocked_in |-> clocked_in,
                                 outcome |-> validation, queued |-> FALSE]
                 /\ UNCHANGED <<clocked_in, app_usage_active, services_running,
                                stream_loops>>
            ELSE /\ start_license_stream
                 /\ services_running' = IF clocked_in THEN TRUE ELSE services_running
                 /\ last_cmd' = [name |-> "get_auth_status", was_clocked_in |-> clocked_in,
                                 outcome |-> validation, queued |-> FALSE]
                 /\ UNCHANGED <<device_token, stored_session, clocked_in,
                                app_usage_active>>
       ELSE IF stored_session = "none"
            THEN /\ last_cmd' = [name |-> "get_auth_status", was_clocked_in |-> clocked_in,
                                 outcome |-> "no_session", queued |-> FALSE]
                 /\ UNCHANGED <<device_token, stored_session, clocked_in,
                                app_usage_active, services_running, stream_loops>>
            ELSE IF validation = "invalid"
                 THEN /\ stored_session' = "none"
                      /\ last_cmd' = [name |-> "get_auth_status",
                                      was_clocked_in |-> clocked_in,
                                      outcome |-> validation, queued |-> FALSE]
                      /\ UNCHANGED <<device_token, clocked_in, app_usage_active,
                                     services_running, stream_loops>>
                 ELSE restore_session_to_memory(backend)
    /\ UNCHANGED <<server_events, offline_events, LICENSE_MONITOR_RUNNING, mon_loops>>
    /\ UNCHANGED authFrame

\* license_stream.rs lines 67-72: a loop ends at the authentication circuit breaker
StreamLoopBreak ==
    /\ stream_loops > 0
    /\ stream_loops' = stream_loops - 1
    /\ UNCHANGED stored_session
    /\ UNCHANGED nonAuthVars

\* main.rs lines 131-136: the process exits (or is killed) and the app is
\* launched again
AppRelaunch ==
    /\ commands < MaxCommands
    /\ commands' = commands + 1
    /\ device_token' = FALSE
    /\ services_running' = FALSE
    /\ LICENSE_MONITOR_RUNNING' = FALSE
    /\ mon_loops' = 0
    /\ stream_loops' = 0
    /\ last_cmd' = [name |-> "relaunch", was_clocked_in |-> clocked_in,
                    outcome |-> "none", queued |-> FALSE]
    /\ UNCHANGED <<clocked_in, app_usage_active, server_events, offline_events,
                   stored_session>>
    /\ UNCHANGED authFrame

AuthInit ==
    /\ stored_session \in {"with_employee_id", "without_employee_id"}
    /\ stream_loops = 0

AuthNext ==
    \/ \E v \in Validations : \E b \in BackendSessions : get_auth_status(v, b)
    \/ StreamLoopBreak
    \/ AppRelaunch
    \/ \E o \in PostOutcomes : clock_in(o)
    \/ \E o \in PostOutcomes : clock_out(o)

(***************************************************************************)
(* Framing of the License Stream (license_stream.rs, connect_and_listen):  *)
(* the response arrives in chunks, each chunk is cut into lines.  A text   *)
(* is a sequence of characters; "d" ":" stands for the prefix "data:".     *)
(***************************************************************************)
MaxFrames == 2

DataPrefix == <<"d", ":">>

\* JSON texts of the events
Payloads == {<<"x">>, <<"x", "y">>}

\* a frame as the server writes it: the data line and a blank line
Frame(payload) == DataPrefix \o payload \o <<"\n", "\n">>

\* str::lines(): the pieces between line feeds; a last piece without a line
\* feed is a line too
RECURSIVE SplitLines(_, _)
SplitLines(text, cur) ==
    IF text = <<>> THEN (IF cur = <<>> THEN <<>> ELSE <<cur>>)
    ELSE IF Head(text) = "\n" THEN <<cur>> \o SplitLines(Tail(text), <<>>)
    ELSE SplitLines(Tail(text), Append(cur, Head(text)))

\* line.starts_with("data:")
StartsWithData(line) ==
    Len(line) >= Len(DataPrefix) /\ SubSeq(line, 1, Len(DataPrefix)) = DataPrefix

\* lines 145-157: the for loop over the lines of one chunk
RECURSIVE ProcessLines(_, _, _)
ProcessLines(lines, buffer, out) ==
    IF lines = <<>> THEN [buffer |-> buffer, out |-> out]
    ELSE LET line == Head(lines)
         IN IF StartsWithData(line)
            THEN ProcessLines(Tail(lines),
                              buffer \o SubSeq(line, Len(DataPrefix) + 1, Len(line)), out)
            ELSE IF line = <<>> /\ buffer # <<>>
                 THEN ProcessLines(Tail(lines), <<>>, Append(out, buffer))
                 ELSE ProcessLines(Tail(lines), buffer, out)

\* the server writes one more frame
ServerSends(payload) ==
    /\ Len(sse_sent) < MaxFrames
    /\ sse_sent' = Append(sse_sent, payload)
    /\ sse_stream' = sse_stream \o Frame(payload)
    /\ UNCHANGED <<data_buffer, dispatched, chunks_whole>>
    /\ UNCHANGED nonSseVars

\* lines 142-157: response.chunk() returns the next k characters
ReceiveChunk(k) ==
    /\ k \in 1..Len(sse_stream)
    /\ LET chunk == SubSeq(sse_stream, 1, k)
           r == ProcessLines(SplitLines(chunk, <<>>), data_buffer, dispatched)
       IN /\ data_buffer' = r.buffer
          /\ dispatched' = r.out
          /\ chunks_whole' = (chunks_whole /\ chunk[k] = "\n")
    /\ sse_stream' = SubSeq(sse_stream, k + 1, Len(sse_stream))
    /\ UNCHANGED sse_sent
    /\ UNCHANGED nonSseVars

\* line 140
SseInit ==
    /\ sse_stream = <<>>
    /\ sse_sent = <<>>
    /\ data_buffer = <<>>
    /\ dispatched = <<>>
    /\ chunks_whole = TRUE

SseNext ==
    \/ \E payload \in Payloads : ServerSends(payload)
    \/ \E k \in 1..Len(sse_stream) : ReceiveChunk(k)

(***************************************************************************)
(* storage/screenshot_queue.rs: the consistency sweep, called between the *)
(* other operations on the queue and the temp folder.                      *)
(***************************************************************************)
NoSweep == [ran |-> FALSE, deleted |-> {}, orphaned |-> {}]

\* cleanup_stale_files run by the service loop; removable are the files whose
\* remove_file succeeds
CleanupSweep(removable) ==
    /\ LET q2 == cleanup_stale_files(Queue, stale, removable) IN
          /\ rows' = q2.rows
          /\ files' = q2.files
          /\ sweep_log' = [ran      |-> TRUE,
                           deleted  |-> {i \in Ids : files[i] /\ ~q2.files[i]},
                           orphaned |-> {i \in Ids : rows[i].present /\ ~q2.rows[i].present}]
    /\ NotGetPending
    /\ UNCHANGED <<next_id, now, pending_removals, fail_calls>>
    /\ UNCHANGED <<licCore, svcVars, reconnVars, batchVars, pollVars, guardVars,
                   sessVars, idleVars, timerVars, authVars, sseVars>>

SweepInit == sweep_log = NoSweep

SweepNext ==
    \/ QueueScreenshot
    \/ MarkUploaded
    \/ MarkUploadFailed
    \/ ExternalDelete
    \/ FileAges
    \/ \E removable \in SUBSET Ids : CleanupSweep(removable)


(***************************************************************************)
(* Specifications.                                                         *)
(***************************************************************************)
AnyDetectorInit ==
    /\ LicenseInit
    /\ QueueInit
    /\ ServiceInit
    /\ StreamInit
    /\ BatcherInit
    /\ PollerInit
    /\ GuardInit
    /\ SessionInit
    /\ IdleInit
    /\ TimerInit
    /\ AuthInit
    /\ SseInit
    /\ SweepInit

\* Outside the idle detector's own specification one detector is enough.
Init ==
    /\ AnyDetectorInit
    /\ detector.threshold_seconds = 0
    /\ stored_session = "with_employee_id"

LicenseSpec == Init /\ [][LicenseNext]_vars

\* The queue is in use while a session is active.
ClockedInInit == Init /\ clocked_in = TRUE

QueueSpec == ClockedInInit /\ [][QueueNext]_vars

ServiceSpec == ClockedInInit /\ [][ServiceNext]_vars

PipelineSpec == ClockedInInit /\ [][PipelineNext]_vars /\ PipelineFairness

StreamSpec == Init /\ [][StreamNext]_vars

BatcherSpec == Init /\ [][BatcherNext]_vars

BatchFillSpec == Init /\ [][BatchFillNext]_vars

PollerSpec == ClockedInInit /\ [][PollerNext]_vars

GuardSpec == ClockedInInit /\ [][GuardNext]_vars

\* The session commands start from a logged-in, clocked-out agent.
ClockedOutInit == Init /\ clocked_in = FALSE

SessionSpec == ClockedOutInit /\ [][SessionNext]_vars

TimerSpec == ClockedInInit /\ [][TimerNext]_vars

\* Clocked out, the detector built with any of the thresholds.
IdleStart ==
    /\ AnyDetectorInit
    /\ clocked_in = FALSE
    /\ stored_session = "with_employee_id"

IdleSpec == IdleStart /\ [][IdleNext]_vars

SseSpec == Init /\ [][SseNext]_vars

SweepSpec == ClockedInInit /\ [][SweepNext]_vars

\* Logged in and clocked out, the stored session with or without employee id.
AuthStart ==
    /\ AnyDetectorInit
    /\ detector.threshold_seconds = 0
    /\ clocked_in = FALSE

AuthSpec == AuthStart /\ [][AuthNext]_vars

(***************************************************************************)
(* Claims about the license monitor, the license stream and the handler.   *)
(***************************************************************************)

\* C1: a run of handle_license_expiration that found the user clocked in has,
\* once its send attempt is over, exactly one clock_out event to its name:
\* accepted by the server or put in the offline queue, never both, never
\* neither, whatever the outcome of the send attempt.
C1_ExactlyOneClockOutPerRun ==
    \A t \in Tasks : pc[t] = "h_end" => h_accepted[t] + h_queued[t] = 1

\* C2: for one invalidation of the license while clocked in, exactly one
\* auto-clockout sequence runs and exactly one clock_out event is produced,
\* however the monitor's polls and the stream's events interleave.
C2_ExactlyOneAutoClockout ==
    /\ sequences <= 1
    /\ server_events + offline_events <= 1
    /\ (sequences = 1 /\ ~clocked_in /\ \A t \in Tasks : pc[t] = "idle")
          => server_events + offline_events = 1

\* C3: a monitor check that ends in an error (ApiClient or network error,
\* 2xx with an unparsable body, a status other than 2xx and 402) leaves
\* LicenseState untouched, does not call the invalidation handler and leaves
\* the session as it was.
C3_TransientFailureKeepsLicenseState ==
    [][(checks' = checks + 1 /\ mon_result' \in ErrResults)
          => /\ license_valid' = license_valid
             /\ license_status' = license_status
             /\ last_license_check' = last_license_check
             /\ pc' = pc
             /\ sequences' = sequences
             /\ clocked_in' = clocked_in]_vars

\* C3 witness: an HTTP 500 was the monitor's last result, after an earlier
\* check had stored a valid license, and the user is still clocked in.
C3_Witness ==
    /\ mon_result = "err_status"
    /\ checks = 2
    /\ clocked_in
    /\ license_valid = "true"
    /\ last_license_check # {}
    /\ \A t \in last_license_check : t < lic_now


(***************************************************************************)
(* Claims about the screenshot queue.                                      *)
(***************************************************************************)
RECURSIVE TwoToThe(_)
TwoToThe(n) == IF n = 0 THEN 1 ELSE 2 * TwoToThe(n - 1)

\* earliest time the spec allows a retry of a row: t + base * 2^min(retry_count, cap)
RetryNotBefore(row) ==
    {l + BASE_RETRY_DELAY_SECS * TwoToThe(Min(row.retry_count, RETRY_SHIFT_CAP)) :
        l \in row.last_attempt}

\* C4: get_pending_uploads returns no row with retry_count < MAX_RETRIES and
\* last_attempt = t before t + BASE_RETRY_DELAY_SECS * 2^min(retry_count, cap),
\* and the backoff test never excludes a row that has no prior attempt.
C4_BackoffRespected ==
    q_op.op = "get_pending_uploads" =>
        /\ \A i \in Range(q_result) :
              /\ rows[i].retry_count < MAX_RETRIES
              /\ \A d \in RetryNotBefore(rows[i]) : now >= d
        /\ \A i \in Range(q_cand) :
              (rows[i].last_attempt = {} /\ files[i]) => i \in Range(q_result)

\* C4 witness: one call returned a row exactly at the end of its backoff
\* window (two failures, 240 s) and held back a row still inside its window.
C4_Witness ==
    /\ q_op.op = "get_pending_uploads"
    /\ \E i \in Range(q_result) :
          /\ rows[i].retry_count = 2
          /\ \E d \in RetryNotBefore(rows[i]) : now = d
    /\ \E j \in Range(q_cand) :
          /\ j \notin Range(q_result)
          /\ files[j]
          /\ \E d \in RetryNotBefore(rows[j]) : now < d

EligibleNow(i) ==
    /\ rows[i].present
    /\ rows[i].retry_count < MAX_RETRIES
    /\ files[i]
    /\ \A d \in RetryNotBefore(rows[i]) : now >= d

\* C5: get_pending_uploads(limit) returns every row that is among the `limit`
\* oldest-created eligible rows, also when older rows are inside their backoff.
C5_OldestEligibleReturned ==
    q_op.op = "get_pending_uploads" =>
        \A i \in Ids :
            (EligibleNow(i) /\ Cardinality({j \in Ids : j < i /\ EligibleNow(j)}) < q_op.limit)
                => i \in Range(q_result)

\* C6: the MAX_RETRIES-th mark_upload_failed call on a queued screenshot leaves
\* neither its row nor its file; an earlier call leaves both in place.
C6_EvictedAtMaxRetries ==
    [][\A i \in Ids :
          fail_calls'[i] = fail_calls[i] + 1 =>
              IF fail_calls'[i] = MAX_RETRIES
                 THEN ~rows'[i].present /\ ~files'[i]
                 ELSE rows'[i].present /\ (files[i] => files'[i])]_vars

C8_RowAndFileRemovedTogether ==
    [][(MarkUploaded \/ MarkUploadFailed) =>
          \A i \in Ids :
              (rows[i].present /\ ~rows'[i].present) => (~files'[i] /\ ~rows'[i].present)]_vars


(***************************************************************************)
(* Claims about the screenshot service.                                    *)
(***************************************************************************)
\* C9: every screenshot file the pipeline captured and enqueued is eventually
\* deleted while the service loop keeps running.
C9_EveryQueuedFileEventuallyDeleted ==
    \A i \in Ids : files[i] ~> ~files[i]

\* C10: any two consecutive automatic captures are at least interval - tolerance
\* seconds apart, whatever settings the loop was given between them and however
\* the captures ended.
C10_CapturesAtLeastIntervalApart ==
    \A p \in capture_log.prev : \A l \in capture_log.last :
        l - p >= capture_log.interval - INTERVAL_TOLERANCE_SECS

\* C11: whenever automatic capture has been enabled without a break for a
\* whole interval (services running, not paused, auto_screenshots on, temp
\* storage not Critical in every iteration since), a capture has been taken
\* within that window: at no moment does the unbroken enabled stretch since
\* the last capture (or since enabling) exceed the interval.
CaptureEnabled ==
    services_running /\ ~services_paused /\ employee_settings.auto_screenshots

C12_CriticalSkipsCaptureAndDrains ==
    [][(critical_skip' # {} /\ now' # now) =>
          /\ UNCHANGED <<next_id, last_capture, capture_log>>
          /\ \A n \in critical_skip' : n >= 1]_vars

C12_Witness ==
    /\ critical_skip = {3}
    /\ \E i \in Ids : rows[i].present

(***************************************************************************)
(* Claims about the license stream's reconnect loop.                       *)
(***************************************************************************)
\* C13: after k consecutive failed connection attempts the delay before the
\* next attempt is min(2^(k-1), 60) seconds (1, 2, 4, 8, 16, 32, 60, 60, ...),
\* never below 1 nor above 60.
C13_DelayIsTwoToTheFailures ==
    (stream_pc = "connect" /\ fail_run >= 1) =>
        \A d \in last_delay :
            /\ d = Min(TwoToThe(fail_run - 1), MAX_BACKOFF)
            /\ d >= 1
            /\ d <= MAX_BACKOFF

\* C14: after any successful connection the delay before the next reconnect
\* attempt is 1 second, whatever failures came before it and whether the
\* connection ended by a clean end of stream or by an error.
C14_DelayOneAfterConnection ==
    (stream_pc = "connect" /\ \E r \in last_outcome : r.connected) =>
        last_delay = {1}

\* C15: the reconnect loop has terminated exactly when the last 3 attempts
\* in a row were authentication failures (HTTP 401); any other error and a
\* clean disconnect reset the count.
C15_TerminatedIffThree401 ==
    (stream_pc = "terminated") <=> (auth_run >= MAX_AUTH_FAILURES)

(***************************************************************************)
(* Claims about the invalidation handler.                                  *)
(***************************************************************************)
\* C16: the invalidation handler (handle_license_invalidation of the stream,
\* handle_license_expiration of either task) invoked while the user is not
\* clocked in returns at once and changes nothing: it stops no service, ends
\* no session, sends no clock_out and queues nothing.
C16_HandlerIdleWhenNotClockedIn ==
    [][\A t \in Tasks :
          (pc[t] \in {"s_inv", "h_check"} /\ pc'[t] # pc[t] /\ ~clocked_in) =>
              /\ pc'[t] = "idle"
              /\ UNCHANGED <<license_valid, license_status, last_license_check,
                             clocked_in, services_running, app_usage_active,
                             h_accepted, h_queued, server_events, offline_events,
                             sequences>>
              /\ UNCHANGED nonLicVars]_vars

C16_Witness ==
    /\ ~clocked_in
    /\ sequences = 0
    /\ license_valid = "false"
    /\ \A t \in Tasks : pc[t] = "idle"
    /\ server_events = 0
    /\ offline_events = 0

(***************************************************************************)
(* Claims about the event batcher.                                         *)
(***************************************************************************)
\* C17: queue_event with a high-priority type flushes the whole pending
\* batch at once: the payload of the flush it makes is the events that were
\* pending, in order, followed by the high-priority event, and exactly that
\* event when nothing was pending.
C17_HighPriorityFlushesBatchAsQueued ==
    \A c \in Callers :
        (batch_pc[c] = "post"
            /\ batch_at_push[c][Len(batch_at_push[c])] \in high_priority) =>
                events_to_send[c] = batch_at_push[c]

\* C18: a low-priority queue_event triggers a flush exactly when the pending
\* batch, the new event included, has reached MAX_BATCH_SIZE: events 1..49
\* cause no flush, the 50th does; that flush takes the whole pending batch,
\* and when nothing was queued or taken since the push that triggered it, it
\* carries the batch as it was at that push (at least MAX_BATCH_SIZE events).
C18_SizeFlushExactlyAtCap ==
    [][/\ \A c \in Callers :
             (batch_at_push'[c] # batch_at_push[c] /\ pushed' \notin high_priority') =>
                 ((batch_pc'[c] = "flush") <=> (Len(batcher_events') >= MAX_BATCH_SIZE))
       /\ \A c \in Callers :
             (batch_pc[c] = "flush" /\ batch_pc'[c] = "post" /\ high_priority' = {}) =>
                 /\ events_to_send'[c] = batcher_events
                 /\ batcher_events = batch_at_push[c]
                        => Len(events_to_send'[c]) >= MAX_BATCH_SIZE]_vars

C18_Witness ==
    /\ Len(last_payload) = MAX_BATCH_SIZE
    /\ last_payload[1] = 1
    /\ last_payload[MAX_BATCH_SIZE] = MAX_BATCH_SIZE

\* C19: when the send of a flushed batch fails, every event of that batch is
\* put into the offline queue: none is dropped and none stays in the pending
\* batch.
C19_FailedBatchFullyQueuedOffline ==
    \A e \in post_failed :
        /\ e \in Range(batch_offline)
        /\ e \notin Range(batcher_events)

\* C20: under any interleaving of queue_event and flush_events calls every
\* queued event is at any moment either pending, or in the one batch a flush
\* has taken, or in exactly one payload already built (never in two, never
\* lost); payloads list events in the order they were queued; a flush that
\* takes the batch leaves the pending batch empty, and a flush that finds it
\* empty sends nothing.
Holders(e) == {t \in BatchTasks : e \in Range(events_to_send[t])}

InQueueOrder(batch) ==
    \A i \in 1..Len(batch) : \A j \in 1..Len(batch) : i < j => batch[i] < batch[j]

C20_EachEventInExactlyOnePayload ==
    [][/\ \A e \in 1..pushed' :
             payload_count'[e] + Cardinality(Holders(e)')
                 + (IF e \in Range(batcher_events') THEN 1 ELSE 0) = 1
       /\ InQueueOrder(last_payload')
       /\ \A t \in BatchTasks : InQueueOrder(events_to_send'[t])
       /\ \A t \in BatchTasks :
             (batch_pc[t] = "flush" /\ batch_pc'[t] = "post") =>
                 (batcher_events' = <<>> /\ events_to_send'[t] = batcher_events)
       /\ \A t \in BatchTasks :
             (batch_pc[t] = "flush" /\ batch_pc'[t] = "idle") =>
                 (batcher_events = <<>>
                  /\ UNCHANGED <<payload_count, last_payload, batch_offline, post_failed>>)]_vars

C20_Witness ==
    /\ batch_pc["c1"] = "post"
    /\ batch_pc["timer"] = "post"
    /\ batch_pc["c2"] = "flush"
    /\ \E e \in 1..pushed : payload_count[e] = 1

(***************************************************************************)
(* Claims about the job poller.                                            *)
(***************************************************************************)
\* C21: in every poll the since parameter equals the cursor returned by the
\* most recent successful fetch that carried a cursor and is omitted before
\* the first such fetch; a failed fetch leaves the cursor unchanged, a failed
\* job does not keep it from advancing, and once set it is never none again.
C21_SinceIsLastFetchedCursor ==
    /\ since_param = since_expected
    /\ poll_pc = "idle" => last_cursor = carried

\* C22: within one successful poll every job of the returned array is
\* processed exactly once and in array order; a job that fails, is malformed
\* or has an unknown type does not stop the jobs after it and is not done
\* again.
C22_JobsProcessedOnceInOrder ==
    [][/\ \A i \in 1..Len(job_log') : job_log'[i].idx = i
       /\ poll_pc' = "jobs" => Len(job_log') = job_idx' - 1
       /\ (poll_pc = "jobs" /\ poll_pc' = "idle") => Len(job_log) = Len(jobs)]_vars

C22_Witness ==
    /\ poll_pc = "idle"
    /\ Len(jobs) = MaxJobs
    /\ Len(job_log) = MaxJobs
    /\ jobs[1].type = "screenshot" /\ jobs[1].has_id
    /\ job_log[1].executed /\ job_log[1].taken = 0
    /\ job_log[2].executed /\ job_log[2].taken = 1

\* C23: for every screenshot job the poller executes exactly one outcome
\* reaches the server: screenshot_taken when capture and upload succeeded,
\* otherwise screenshot_failed; never both and never none.
C23_ExactlyOneOutcomeReported ==
    \A i \in 1..Len(job_log) :
        job_log[i].executed =>
            /\ job_log[i].taken + job_log[i].failed = 1
            /\ (job_log[i].taken = 1) <=> job_log[i].done

(***************************************************************************)
(* Claims about the license state and the license events.                  *)
(***************************************************************************)
\* C24: LicenseState.valid is Some(true) only when the most recent license
\* response or stream event that updated the state carried valid = true; the
\* initial None and a message without valid (or with null) are never recorded
\* as valid.
C24_ValidOnlyWhenCarriedTrue ==
    /\ license_valid = "true" => lic_log.update = "true"
    /\ lic_log.type = "none" => license_valid = None

C24_Witness ==
    /\ lic_log.type \in UpdateTypes
    /\ lic_log.valid = None
    /\ license_valid = "false"
    /\ pc["stream"] = "s_inv"

\* C25: a connected or heartbeat event of the license stream leaves the
\* LicenseState (valid, status, last check time) unchanged and does not
\* invoke the invalidation handler, whatever fields it carries.
C25_ConnectedLeavesLicenseState ==
    [][(stream_events' = stream_events + 1
           /\ lic_log'.type \in {"connected", "heartbeat"}) =>
          /\ UNCHANGED <<license_valid, license_status, last_license_check>>
          /\ pc'["stream"] = "idle"]_vars

\* C26: for every license_updated, license_renewed, license_activated,
\* license_expired or license_revoked event the invalidation handler is
\* invoked if and only if the resulting LicenseState is invalid: expired and
\* revoked always set valid = false and invoke it, the update family sets
\* valid to the event's value and invokes it only when that is not true.
C26_HandlerInvokedIffInvalid ==
    [][(stream_events' = stream_events + 1
           /\ lic_log'.type \in UpdateTypes \cup RevocationTypes) =>
          /\ (pc'["stream"] = "s_inv") <=> (license_valid' # "true")
          /\ lic_log'.type \in RevocationTypes => license_valid' = "false"
          /\ lic_log'.type \in UpdateTypes =>
                license_valid' = (IF lic_log'.valid = "true" THEN "true" ELSE "false")]_vars

C26_Witness ==
    /\ lic_log.type \in RevocationTypes
    /\ lic_log.valid = "true"
    /\ license_valid = "false"
    /\ pc["stream"] = "s_inv"


(***************************************************************************)
(* Claims about the singleton guards.                                      *)
(***************************************************************************)
ServiceHolders == {i \in Starters : svc_inst[i] \in InService}

\* C27: at most one instance of the screenshot service is past the guard at
\* any time, under every interleaving of concurrent start calls and
\* stop/start cycles; a start_screenshot_service call made while the guard
\* is held returns without entering the loop; and the guard is held exactly
\* while an instance is past it, so it is released on every exit path,
\* the failure of init_queue_table included.
C27_OneScreenshotServiceInstance ==
    /\ [](/\ Cardinality(ServiceHolders) <= 1
          /\ SCREENSHOT_SERVICE_GUARD <=> ServiceHolders # {})
    /\ [][\A i \in Starters :
            (SCREENSHOT_SERVICE_GUARD /\ svc_inst[i] \notin InService
                /\ svc_inst'[i] # svc_inst[i])
            => svc_inst'[i] = "skipped"]_vars

\* one call is in the loop and holds the guard, the other was turned away
C27_Witness ==
    /\ svc_inst["s1"] = "loop"
    /\ svc_inst["s2"] = "skipped"
    /\ SCREENSHOT_SERVICE_GUARD

\* both exit paths released the guard
C27_WitnessReleased ==
    /\ svc_inst["s1"] = "init_failed"
    /\ svc_inst["s2"] = "exited"
    /\ ~SCREENSHOT_SERVICE_GUARD

\* C28: at most one License Monitor polling loop exists at any time, under
\* every interleaving of start_license_monitor and stop_license_monitor.
C28_OneLicenseMonitorLoop == mon_loops <= 1

\* C28 without concurrent start calls: the calls run one after the other
\* (no call is between its load and its store while another one is), and
\* still a stop followed by a start leaves two loops.
C28_OneLoopWithSequentialCalls ==
    (\A i, j \in Starters : i # j => mon_call[i] = "out" \/ mon_call[j] = "out")
        => mon_loops <= 1


(***************************************************************************)
(* Claims about the session commands.                                      *)
(***************************************************************************)
ClockOutCommands == {"clock_out", "logout"}

\* C29: after a clock-out performed while clocked in, by clock_out or by
\* logout, the Service Orchestrator is stopped, the License Monitor is
\* stopped and the local WorkSession is ended, whatever the outcome of
\* sending the clock_out event.
C29_ClockOutStopsEverything ==
    (last_cmd.name \in ClockOutCommands /\ last_cmd.was_clocked_in)
        => /\ ~services_running
           /\ ~LICENSE_MONITOR_RUNNING
           /\ ~clocked_in

\* C29 for the clock_out command alone
C29_UserClockOutStopsEverything ==
    (last_cmd.name = "clock_out" /\ last_cmd.was_clocked_in)
        => /\ ~services_running
           /\ ~LICENSE_MONITOR_RUNNING
           /\ ~clocked_in

\* a clock_out whose send failed
C29_UserClockOutWitness ==
    /\ last_cmd.name = "clock_out"
    /\ last_cmd.outcome = "network_error"
    /\ mon_loops > 0

SendFailures == {"network_error", "status_error"}

\* C30: in clock_out, logout and the forced clock-out at shutdown, when
\* sending the clock_out event fails with a network error or a non-success
\* status, the event is handed to the offline queue.
C30_FailedClockOutIsQueued ==
    (/\ last_cmd.name \in ClockOutCommands \cup {"force_clock_out"}
     /\ last_cmd.was_clocked_in
     /\ last_cmd.outcome \in SendFailures)
        => last_cmd.queued

\* C30 for the one case the code covers: a network error in the forced
\* clock-out
C30_ForcedClockOutNetworkErrorQueued ==
    (last_cmd.name = "force_clock_out" /\ last_cmd.outcome = "network_error")
        => last_cmd.queued /\ offline_events > 0

C30_ForcedWitness ==
    /\ last_cmd.name = "force_clock_out"
    /\ last_cmd.outcome = "network_error"


C32_SessionEndedBeforeSend ==
    \A t \in Tasks :
        pc[t] = "h_send" => /\ ~app_usage_active
                            /\ ~services_running
                            /\ ~clocked_in

\* C32 without the WorkSession: the sub-session and the loops are stopped
\* when the send starts, in a run of the handler no other run overlaps.
C32_StoppedBeforeSend ==
    \A t \in Tasks :
        (pc[t] = "h_send" /\ \A u \in Tasks \ {t} : pc[u] \notin {"h_stop", "h_send", "h_end"})
            => ~app_usage_active /\ ~services_running

C32_StoppedWitness ==
    \E t \in Tasks : pc[t] = "h_send" /\ clocked_in /\ ~services_running


(***************************************************************************)
(* Claims about the order of delivery of the Event Batcher.                *)
(***************************************************************************)
\* C33: batches are sent in the order their events were enqueued: when the
\* send of a batch completes, no other flush still holds a batch of
\* earlier-enqueued events that it has yet to send.
C33_BatchesSentInQueueOrder ==
    [][\A t \in BatchTasks :
          (batch_pc[t] = "post" /\ batch_pc'[t] = "idle") =>
              \A u \in BatchTasks \ {t} :
                  \A e \in Range(events_to_send[u]) :
                      \A f \in Range(events_to_send[t]) : f < e]_vars

\* C33 within one batch: a payload lists its events in the order they were
\* enqueued.
C33_PayloadInQueueOrder ==
    \A i \in 1..Len(last_payload) : \A j \in 1..Len(last_payload) :
        i < j => last_payload[i] < last_payload[j]


(***************************************************************************)
(* Claims about the batch timer loop.                                      *)
(***************************************************************************)
\* C35: a tick of the timer loop flushes when services should run; on a
\* tick where they should not run and are not running it makes one final
\* flush and the loop exits; on a tick where they are running but should
\* not run it flushes nothing.  The loop makes at most one final flush, and
\* once it has exited the timer starts no flush.
C35_TimerFlushGated ==
    /\ [](tick_log.final_flushes <= 1)
    /\ [][/\ tick_log'.n # tick_log.n =>
                /\ should_services_run => batch_pc'["timer"] = "flush"
                /\ (~should_services_run /\ is_services_running)
                       => batch_pc'["timer"] = "idle" /\ batch_service' = "running"
                /\ (~should_services_run /\ ~is_services_running)
                       => batch_pc'["timer"] = "flush" /\ batch_service' = "stopped"
                /\ batch_service' = "stopped" => ~is_services_running
          /\ (batch_service = "stopped" /\ batch_pc["timer"] = "idle")
                => batch_pc'["timer"] = "idle" /\ batch_service' = "stopped"]_vars

\* the loop skipped a tick while paused, and later made its final flush
C35_Witness ==
    /\ batch_service = "stopped"
    /\ tick_log.final_flushes = 1
    /\ batch_pc["timer"] = "idle"
    /\ Len(last_payload) > 0
    /\ services_paused


(***************************************************************************)
(* Claims about clock_in.                                                  *)
(***************************************************************************)
\* C39: when clock_in returns an error (not authenticated, API client
\* failure, network error or non-success response) no local WorkSession is
\* left active.
C39_FailedClockInLeavesNoSession ==
    (last_cmd.name = "clock_in" /\ last_cmd.outcome # "ok") => ~clocked_in

\* C39 for the services alone: a clock_in that returns an error has started
\* neither the background services nor a License Monitor loop.
C39_FailedClockInStartsNothing ==
    [][\A o \in PostOutcomes :
          (clock_in(o) /\ last_cmd'.outcome # "ok") =>
              /\ services_running' = services_running
              /\ LICENSE_MONITOR_RUNNING' = LICENSE_MONITOR_RUNNING
              /\ mon_loops' = mon_loops]_vars


C34_RestoreWithEmployeeIdMatchesBackend ==
    (last_cmd.name = "restore" /\ stored_session = "with_employee_id") =>
        IF last_cmd.outcome = "active"
        THEN clocked_in /\ services_running
        ELSE ~clocked_in /\ ~services_running

\* a stale local session was cleared by a restore that found none on the backend
C34_WithEmployeeIdWitness ==
    /\ last_cmd.name = "restore"
    /\ stored_session = "with_employee_id"
    /\ last_cmd.was_clocked_in
    /\ last_cmd.outcome = "none"

\* C40: at most one License Stream reconnect loop is alive in the process.
C40_OneLicenseStreamLoop == stream_loops <= 1


(***************************************************************************)
(* Claims about the framing of the License Stream.                         *)
(***************************************************************************)
\* C36: whatever the split of the byte stream into chunks, the frames are
\* dispatched once each, in order, each with exactly its JSON text: what was
\* dispatched is always a beginning of what was sent, and all of it once
\* every character has been received.
C36_FramesDispatchedOnceAsSent ==
    /\ Len(dispatched) <= Len(sse_sent)
    /\ dispatched = SubSeq(sse_sent, 1, Len(dispatched))
    /\ sse_stream = <<>> => dispatched = sse_sent

\* C36 for chunks that end at the end of a line
C36_WholeLineChunksDispatchedAsSent ==
    chunks_whole =>
        /\ Len(dispatched) <= Len(sse_sent)
        /\ dispatched = SubSeq(sse_sent, 1, Len(dispatched))
        /\ sse_stream = <<>> => dispatched = sse_sent

\* a frame whose data line and blank line came in two chunks
C36_WholeLineWitness ==
    /\ chunks_whole
    /\ Len(dispatched) = MaxFrames
    /\ sse_stream = <<>>
    /\ dispatched[1] # dispatched[2]

(***************************************************************************)
(* Claims about the consistency sweep.                                     *)
(***************************************************************************)
\* C38: a call of cleanup_stale_files deletes a file only if the file is older
\* than the staleness threshold and no queue row refers to it, and when the
\* call has completed every queue row that is left refers to a file that
\* exists.
C38_SweepKeepsQueueAndFolderConsistent ==
    [][(\E removable \in SUBSET Ids : CleanupSweep(removable)) =>
          /\ \A i \in Ids : files[i] /\ ~files'[i] => stale[i] /\ ~rows[i].present
          /\ \A i \in Ids : rows'[i].present => files'[i]]_vars

\* a sweep that deleted a stale unreferenced file, removed a row whose file was
\* gone, and left nothing else to remove
C38_Witness ==
    /\ sweep_log.ran
    /\ sweep_log.deleted # {}
    /\ sweep_log.orphaned # {}
    /\ \A i \in Ids : ~rows[i].present /\ ~files[i]

(***************************************************************************)
(* Claims about failures inside the long-running loops.                    *)
(***************************************************************************)
\* C37: no failure ends a long-running loop other than the License Stream's
\* circuit breaker; for the Screenshot Service: a start call that holds the
\* guard comes out of its queue initialisation, failed or not, with its loop
\* running.
C37_LoopRunsAfterQueueInitialisation ==
    [][\A i \in Starters :
          (svc_inst[i] = "init" /\ svc_inst'[i] # "init") => svc_inst'[i] = "loop"]_vars

====
